---------------------------- MODULE Spec2Model ----------------------------
(***************************************************************************)
(* Model of js/scripts/build/build.js, the Node build orchestrator:        *)
(* format -> lint -> typecheck -> unit tests + coverage -> Playwright ->   *)
(* coverage gate -> complexity -> summary.                                 *)
(*                                                                         *)
(* Text is modelled as a sequence of tokens.  A token is either one        *)
(* character with a meaning to the script (".", "/", "\\", "*", ",", " ",  *)
(* a digit, a letter) or a run of ordinary characters written as one       *)
(* string ("src", "vitest").  A JavaScript number is a record              *)
(* [nan, v]: NaN, or the integer v.  The output a child process writes is  *)
(* a record [lead, body, trail]: the number of whitespace characters it    *)
(* starts with, the number of characters from its first to its last        *)
(* non-whitespace character, the number of whitespace characters it ends   *)
(* with.                                                                   *)
(*                                                                         *)
(* The module also models cs/build-full.bat, the .NET orchestrator, with   *)
(* the stage scripts it calls (init.bat, format.bat, build-sln.bat,        *)
(* run-tests.bat, generate-coverage-report.bat, validate-coverage.bat,     *)
(* finalize.bat).  The two orchestrators share no state: a run of one      *)
(* leaves the variables of the other as they are.                          *)
(***************************************************************************)
EXTENDS Integers, Sequences, FiniteSets, TLC

VARIABLES
  env,            \* process.env.COVERAGE_THRESHOLD
  argv,           \* the command line, by flag
  rootFiles,      \* configuration files at ROOT when the script starts
  rootDirs,       \* relative paths that exist under ROOT when the script starts
  pkg,            \* package.json as read by readJSON (or null)
  childOutput,    \* what a failing child process writes to stdout and stderr
  pc,             \* the script's position
  events,         \* steps run and notable lines printed, in order
  softFailures,   \* the softFailures array
  coverageConsumer,
  playwrightProjects,  \* number of projects findPlaywrightProjects returned
  playwrightIndex,     \* projects already run by the Playwright loop
  coverageFiles,  \* candidate summary files on disk when the gate looks
  summaryData,    \* content of the first of them
  summaryPath,    \* the gate's summaryPath
  coverageTable,  \* the rows the gate printed
  fsWrites,       \* what the script itself created, copied or removed under ROOT
  fsProbes,       \* what the script looked for under ROOT, and after how many steps
  exitCode,       \* the process exit code, once pc = "Exit"
  scanned,        \* the directories the recursive scans have read, with their depth
  batArgs,        \* build-full.bat: the command line (%*)
  dotnetProject,  \* what build-full.bat finds: environment, build.config.bat, files
  cmdEnv,         \* the batch variables, ERRORLEVEL among them
  batPc,          \* build-full.bat's position
  stagesRun,      \* the scripts called and the commands they ran, with their exit codes
  batExit,        \* the exit code of build-full.bat or of the stage script, once batPc = "exit"
  rawCoverage     \* artifacts\coverage\raw: absent, left by an earlier run, or written by dotnet test

vars == <<env, argv, rootFiles, rootDirs, pkg, childOutput, pc, events, softFailures,
          coverageConsumer, playwrightProjects, playwrightIndex,
          coverageFiles, summaryData, summaryPath, coverageTable, fsWrites,
          fsProbes, exitCode, scanned, batArgs, dotnetProject, cmdEnv, batPc, stagesRun, batExit, rawCoverage>>

\* the variables of build-full.bat
batVars == <<batArgs, dotnetProject, cmdEnv, batPc, stagesRun, batExit, rawCoverage>>

\* the variables of build.js
jsVars == <<env, argv, rootFiles, rootDirs, pkg, childOutput, pc, events, softFailures,
            coverageConsumer, playwrightProjects, playwrightIndex,
            coverageFiles, summaryData, summaryPath, coverageTable, fsWrites,
            fsProbes, exitCode, scanned>>

\* what the run is given: it changes none of them
inputs == <<env, argv, rootFiles, rootDirs, pkg, childOutput, coverageFiles, summaryData>>

---------------------------------------------------------------------------
(* Bounds of the model *)

\* longest COVERAGE_THRESHOLD / --threshold text, in characters
MaxNumChars == 2
\* longest --include-dirs / --exclude-dirs text, in tokens
MaxListTokens == 2
\* longest script command in the manifest, in tokens
MaxCmdTokens == 2
\* most Playwright projects found under ROOT
MaxProjects == 1
\* most whitespace characters at either end of a child's output
MaxMargin == 1
\* most arguments on the command line of build-full.bat
MaxArgs == 2

---------------------------------------------------------------------------
(* Sequences of tokens *)

RECURSIVE SeqsUpTo(_, _)
SeqsUpTo(S, n) ==
  IF n = 0 THEN {<<>>}
  ELSE LET shorter == SeqsUpTo(S, n - 1)
       IN  shorter \cup {Append(s, x) : s \in {t \in shorter : Len(t) = n - 1}, x \in S}

Range(s) == {s[i] : i \in 1..Len(s)}

Contains(s, x) == \E i \in 1..Len(s) : s[i] = x

\* Array.from(new Set(list)): first occurrences, in order
RECURSIVE DedupInto(_, _)
DedupInto(seen, s) ==
  IF s = <<>> THEN seen
  ELSE DedupInto(IF Contains(seen, s[1]) THEN seen ELSE Append(seen, s[1]), Tail(s))

Dedup(s) == DedupInto(<<>>, s)

---------------------------------------------------------------------------
(* Command line and environment *)

\* a flag's place in argv: not there, there as the last word, or followed by text
Absent == [kind |-> "absent", text |-> <<>>]
Undefined == [kind |-> "undefined", text |-> <<>>]
Str(t) == [kind |-> "string", text |-> t]

hasFlag(flag) == argv[flag].kind # "absent"

getArg(flag, fallback) == IF argv[flag].kind = "absent" THEN fallback ELSE argv[flag]

---------------------------------------------------------------------------
(* JavaScript numbers *)

NaN == [nan |-> TRUE, v |-> 0]
Num(n) == [nan |-> FALSE, v |-> n]

Digits == {"0", "1", "2", "3", "4", "5", "6", "7", "8", "9"}

DigitValue(c) ==
  CASE c = "0" -> 0 [] c = "1" -> 1 [] c = "2" -> 2 [] c = "3" -> 3 [] c = "4" -> 4
    [] c = "5" -> 5 [] c = "6" -> 6 [] c = "7" -> 7 [] c = "8" -> 8 [] c = "9" -> 9

RECURSIVE TrimLeft(_)
TrimLeft(t) == IF t # <<>> /\ t[1] = " " THEN TrimLeft(Tail(t)) ELSE t

RECURSIVE TrimRight(_)
TrimRight(t) ==
  IF t # <<>> /\ t[Len(t)] = " " THEN TrimRight(SubSeq(t, 1, Len(t) - 1)) ELSE t

Trim(t) == TrimRight(TrimLeft(t))

RECURSIVE DecimalValue(_)
DecimalValue(t) ==
  IF t = <<>> THEN 0 ELSE 10 * DecimalValue(SubSeq(t, 1, Len(t) - 1)) + DigitValue(t[Len(t)])

\* Number(x) for undefined and for text made of digits, letters and blanks
Number(x) ==
  IF x.kind # "string" THEN NaN
  ELSE LET t == Trim(x.text)
       IN  IF t = <<>> THEN Num(0)
           ELSE IF \A i \in 1..Len(t) : t[i] \in Digits THEN Num(DecimalValue(t))
           ELSE NaN

Truthy(n) == ~n.nan /\ n.v # 0

\* a < b and a >= b on numbers: both are false when either side is NaN
Less(a, b) == ~a.nan /\ ~b.nan /\ a.v < b.v
AtLeast(a, b) == ~a.nan /\ ~b.nan /\ a.v >= b.v

DefaultThreshold == 70

COVERAGE_THRESHOLD ==
  LET text == IF env.kind # "absent" THEN env ELSE getArg("threshold", Str(<<"7", "0">>))
      n    == Number(text)
  IN  IF Truthy(n) THEN n ELSE Num(DefaultThreshold)

\* read from the command line and used nowhere else in the script
SRC_DIR == getArg("src", Str(<<"src">>))

---------------------------------------------------------------------------
(* Source targets *)

RECURSIVE Split(_, _)
\* text.split(sep): the pieces between occurrences of the token sep
Split(t, sep) ==
  IF t = <<>> THEN << <<>> >>
  ELSE LET rest == Split(Tail(t), sep)
       IN  IF t[1] = sep THEN << <<>> >> \o rest
           ELSE << <<t[1]>> \o rest[1] >> \o Tail(rest)

NonEmpty(t) == t # <<>>

parseListArg(flag) ==
  LET raw == getArg(flag, Absent)
  IN  IF raw.kind # "string" \/ raw.text = <<>> THEN <<>>
      ELSE LET pieces == Split(raw.text, ",")
           IN  SelectSeq([i \in 1..Len(pieces) |-> Trim(pieces[i])], NonEmpty)

ALWAYS_IGNORE_DIRS ==
  { <<".", "cache">>, <<".", "git">>, <<".", "idea">>, <<".", "next">>, <<".", "nuxt">>,
    <<".", "output">>, <<".", "pnpm">>, <<".", "turbo">>, <<".", "venv">>, <<".", "vscode">>,
    <<"artifacts">>, <<"build">>, <<"coverage">>, <<"coverage-report">>,
    <<"coverage-reports">>, <<"dist">>, <<"logs">>, <<"node_modules">>, <<"out">>,
    <<"reports">>, <<"tmp">>, <<"temp">> }

DEFAULT_SOURCE_DIRS ==
  << <<"src">>, <<"app">>, <<"apps">>, <<"packages">>, <<"services">>, <<"client">>,
     <<"clients">>, <<"frontend">>, <<"backend">>, <<"server">>, <<"shared">>, <<"lib">>,
     <<"libs">>, <<"modules">>, <<"components">>, <<"scripts">>, <<"test">>, <<"tests">>,
     <<"e2e">> >>

DEFAULT_ROOT_FILE_GLOBS ==
  << <<"*", ".", "{js,jsx,ts,tsx,mjs,cjs,cts,mts,json,css,scss,md,html}">>,
     <<"*", ".", "{yml,yaml}">>,
     <<"*", ".", "{cjs,mjs,cts,mts}">> >>

extraIncludeDirs == parseListArg("includeDirs")
extraExcludeDirs == Range(parseListArg("excludeDirs"))

containsGlobPattern(value) == \E i \in 1..Len(value) : value[i] \in {"*", "?", "[", "]"}

RECURSIVE StripLead(_)
StripLead(t) == IF t # <<>> /\ t[1] \in {".", "/"} THEN StripLead(Tail(t)) ELSE t

\* candidate.replace(/^[./]+/, "").replace(/\\/g, "/")
normalizeCandidate(candidate) ==
  LET stripped == StripLead(candidate)
  IN  [i \in 1..Len(stripped) |-> IF stripped[i] = "\\" THEN "/" ELSE stripped[i]]

RECURSIVE JoinSegments(_)
JoinSegments(segs) ==
  IF segs = <<>> THEN <<>>
  ELSE IF Len(segs) = 1 THEN segs[1]
  ELSE segs[1] \o <<"/">> \o JoinSegments(Tail(segs))

RECURSIVE Resolve(_, _)
\* path.join's normalisation: empty and "." segments dropped, ".." takes one back
Resolve(segs, acc) ==
  IF segs = <<>> THEN acc
  ELSE LET s == segs[1]
       IN  IF s = <<>> \/ s = <<".">> THEN Resolve(Tail(segs), acc)
           ELSE IF s = <<".", ".">>
                THEN Resolve(Tail(segs), IF acc = <<>> THEN acc ELSE SubSeq(acc, 1, Len(acc) - 1))
           ELSE Resolve(Tail(segs), Append(acc, s))

\* existsSync(join(ROOT, relative)) when the script starts
existsUnderRoot(relative) ==
  LET segs == Resolve(Split(relative, "/"), <<>>)
  IN  segs = <<>> \/ JoinSegments(segs) \in rootDirs

\* the loop body without the test of the top segment against --exclude-dirs
eligibleTargetWholeNameOnly(normalized) ==
  LET topSegment == Split(normalized, "/")[1]
  IN  /\ normalized # <<>>
      /\ topSegment \notin ALWAYS_IGNORE_DIRS
      /\ normalized \notin extraExcludeDirs
      /\ (containsGlobPattern(normalized) \/ existsUnderRoot(normalized))

eligibleTarget(normalized) ==
  LET topSegment == Split(normalized, "/")[1]
  IN  /\ normalized # <<>>
      /\ topSegment \notin ALWAYS_IGNORE_DIRS
      /\ normalized \notin extraExcludeDirs
      /\ topSegment \notin extraExcludeDirs
      /\ (containsGlobPattern(normalized) \/ existsUnderRoot(normalized))

resolveTargets(candidates) ==
  Dedup(SelectSeq([i \in 1..Len(candidates) |-> normalizeCandidate(candidates[i])],
                  eligibleTarget))

SOURCE_TARGETS == resolveTargets(extraIncludeDirs \o DEFAULT_SOURCE_DIRS)

\* a fallback that ignores --exclude-dirs
fallbackIgnoringExcludes == SelectSeq(DEFAULT_SOURCE_DIRS, existsUnderRoot)

FALLBACK_TARGETS == resolveTargets(DEFAULT_SOURCE_DIRS)
PRETTIER_TARGETS ==
  LET source == SOURCE_TARGETS IN IF Len(source) > 0 THEN source ELSE FALLBACK_TARGETS
ESLINT_TARGETS ==
  LET source == SOURCE_TARGETS IN IF Len(source) > 0 THEN source ELSE FALLBACK_TARGETS
COMPLEXITY_TARGETS ==
  LET eslint == ESLINT_TARGETS IN IF Len(eslint) > 0 THEN eslint ELSE FALLBACK_TARGETS
shouldRunPlaywright == hasFlag("runPlaywrightTests")

prettierTargetsWithRootGlobs ==
  LET prettier == PRETTIER_TARGETS
  IN  IF Len(prettier) > 0 THEN Dedup(prettier \o DEFAULT_ROOT_FILE_GLOBS)
      ELSE DEFAULT_ROOT_FILE_GLOBS

hasPrettierTargets == Len(prettierTargetsWithRootGlobs) > 0
hasEslintTargets == Len(ESLINT_TARGETS) > 0

---------------------------------------------------------------------------
(* Project shape *)

\* a value read from package.json: the key is missing, or it holds text
Missing == [kind |-> "absent", text |-> <<>>]

\* a string is truthy when it is not empty; a missing key reads as undefined
TruthyText(x) == x.kind = "string" /\ x.text # <<>>

NullPkg ==
  [isNull |-> TRUE, testUnit |-> Missing, test |-> Missing,
   devVitest |-> Missing, depVitest |-> Missing, devJest |-> Missing, depJest |-> Missing]

Manifest(testUnit, test, devVitest, depVitest, devJest, depJest) ==
  [isNull |-> FALSE, testUnit |-> testUnit, test |-> test,
   devVitest |-> devVitest, depVitest |-> depVitest, devJest |-> devJest, depJest |-> depJest]

\* pkg?.scripts?.test ?? ""
defaultTestScript == IF pkg.test.kind = "string" THEN pkg.test.text ELSE <<>>

NoScript == "null"

unitScriptName ==
  IF TruthyText(pkg.testUnit) THEN "test:unit"
  ELSE IF defaultTestScript # <<>> THEN "test" ELSE NoScript

unitScriptCommand ==
  IF unitScriptName = "test:unit" THEN pkg.testUnit.text
  ELSE IF unitScriptName = "test" THEN pkg.test.text ELSE <<>>

\* tokens that are not word characters ([A-Za-z0-9_]); every other token is a run of them
NonWordTokens == {" ", "-", ".", "/", "@", ":", "&"}

\* /\bword\b/.test(text)
wordIn(word, text) ==
  \E i \in 1..Len(text) :
    /\ text[i] = word
    /\ (i = 1 \/ text[i - 1] \in NonWordTokens)
    /\ (i = Len(text) \/ text[i + 1] \in NonWordTokens)

EslintConfigNames ==
  {"eslint.config.js", "eslint.config.mjs", "eslint.config.cjs", ".eslintrc.js",
   ".eslintrc.cjs", ".eslintrc.json", ".eslintrc"}

hasAny(paths) == \E path \in paths : path \in rootFiles

hasTsConfig == "tsconfig.json" \in rootFiles
hasEslintConfig == hasAny(EslintConfigNames)

usesVitest ==
  wordIn("vitest", unitScriptCommand) \/ TruthyText(pkg.devVitest) \/ TruthyText(pkg.depVitest)

usesJest ==
  wordIn("jest", unitScriptCommand) \/ TruthyText(pkg.devJest) \/ TruthyText(pkg.depJest)

---------------------------------------------------------------------------
(* The script's own writes under ROOT *)

ART_DIR == <<"artifacts">>
REPORT_DIR == <<"artifacts", "/", "test-results">>

\* project is the Playwright project a copied report belongs to, else 0
FsWrite(op, path, project) == [op |-> op, path |-> path, project |-> project]

\* mkdirSync(ART_DIR) and mkdirSync(REPORT_DIR), { recursive: true }: each
\* creates its directory unless it is there
startupWrites ==
  {FsWrite("mkdir", dir, 0) : dir \in {ART_DIR, REPORT_DIR} \ rootDirs}

\* a look at the file system: what for, the step whose enabling it decides
\* ("" if none), the number of steps run before it
Probe(what, decides, after) == [what |-> what, decides |-> decides, after |-> after]

\* the detections made before the first step: the source directories, the
\* manifest, tsconfig.json, the ESLint configuration
startupProbes ==
  { Probe("source directories", "Lint", 0), Probe("source directories", "Complexity", 0),
    Probe("package.json", "Unit Tests", 0), Probe("tsconfig.json", "TypeCheck", 0),
    Probe("ESLint config", "Lint", 0) }

isStepRun(e) == e.kind = "step"
\* the steps run so far
stepsRun == SelectSeq(events, isStepRun)

---------------------------------------------------------------------------
(* Steps *)

\* spawnSync's status when the child was killed by a signal (null)
NullStatus == -1

StepStatuses == {0, 1, NullStatus}

StepName(step) == [step |-> step, tool |-> "", project |-> 0]
UnitTestsName(tool) == [step |-> "Unit Tests", tool |-> tool, project |-> 0]
PlaywrightName(project) == [step |-> "Playwright", tool |-> "", project |-> project]
NoStep == StepName("")

MAX_OUTPUT_CHARS == 8000

Output(lead, body, trail) == [lead |-> lead, body |-> body, trail |-> trail]
Quiet == [stdout |-> Output(0, 0, 0), stderr |-> Output(0, 0, 0)]

\* the lines printSection writes: the label, a stretch of the captured output
\* (from the character at offset from, chars characters), the truncation notice
LabelLine(label) == [line |-> "label", label |-> label, from |-> 0, chars |-> 0, more |-> 0]
TextLine(from, chars) == [line |-> "text", label |-> "", from |-> from, chars |-> chars, more |-> 0]
TruncatedLine(more) == [line |-> "truncated", label |-> "", from |-> 0, chars |-> 0, more |-> more]

\* (value ?? "").trim(): where the trimmed text starts in value, and its length
trimmed(value) == [from |-> value.lead, length |-> value.body]

\* a printSection that does not trim
printSectionUntrimmed(label, value) ==
  LET length == value.lead + value.body + value.trail
  IN  IF length = 0 THEN <<>>
      ELSE << LabelLine(label) >> \o
           (IF length > MAX_OUTPUT_CHARS
            THEN << TextLine(0, MAX_OUTPUT_CHARS), TruncatedLine(length - MAX_OUTPUT_CHARS) >>
            ELSE << TextLine(0, length) >>)

printSection(label, value) ==
  LET text == trimmed(value)
  IN  IF text.length = 0 THEN <<>>
      ELSE << LabelLine(label) >> \o
           (IF text.length > MAX_OUTPUT_CHARS
            THEN << TextLine(text.from, MAX_OUTPUT_CHARS),
                    TruncatedLine(text.length - MAX_OUTPUT_CHARS) >>
            ELSE << TextLine(text.from, text.length) >>)

\* a step that ran: what it was given, whether the child exited with status 0,
\* the label printed, the stdout and stderr sections printed, whether the
\* diagnostic re-invocation ran
StepEvent(name, targets, zero, label, diag) ==
  [kind |-> "step", name |-> name, targets |-> targets, zero |-> zero, label |-> label,
   sections |-> IF zero THEN <<>>
                ELSE printSection("stdout", childOutput.stdout)
                     \o printSection("stderr", childOutput.stderr),
   diag |-> diag, names |-> <<>>]

\* a line printed outside runStep
LineEvent(text, names) ==
  [kind |-> "line", name |-> NoStep, targets |-> <<>>, zero |-> TRUE, label |-> text,
   sections |-> <<>>, diag |-> FALSE, names |-> names]

\* a hard failure that does not end the process
runStepContinues(name, targets, allowFailure, hasDiag, status, next) ==
  /\ events' = Append(events,
       StepEvent(name, targets, status = 0,
                 IF status = 0 THEN "OK"
                 ELSE IF allowFailure THEN "WARN (continuing)" ELSE "FAILED",
                 status # 0 /\ hasDiag))
  /\ softFailures' =
       IF status # 0 /\ allowFailure
       THEN Append(softFailures,
                   [name |-> name, exitCode |-> IF status = NullStatus THEN 1 ELSE status])
       ELSE softFailures
  /\ pc' = next
  /\ exitCode' = exitCode

runStep(name, targets, allowFailure, hasDiag, status, next) ==
  IF status # 0
  THEN IF allowFailure
       THEN /\ events' = Append(events,
                 StepEvent(name, targets, FALSE, "WARN (continuing)", hasDiag))
            /\ softFailures' =
                 Append(softFailures,
                        [name |-> name, exitCode |-> IF status = NullStatus THEN 1 ELSE status])
            /\ pc' = next
            /\ exitCode' = exitCode
       ELSE /\ events' = Append(events, StepEvent(name, targets, FALSE, "FAILED", hasDiag))
            /\ softFailures' = softFailures
            /\ pc' = "Exit"
            /\ exitCode' = 1
  ELSE /\ events' = Append(events, StepEvent(name, targets, TRUE, "OK", FALSE))
       /\ softFailures' = softFailures
       /\ pc' = next
       /\ exitCode' = exitCode

skipStep(text, next) ==
  /\ events' = Append(events, LineEvent(text, <<>>))
  /\ pc' = next
  /\ UNCHANGED <<softFailures, exitCode>>

\* the order the spec's state machine gives: every step, then the gate
nextStageGateLast(stage) ==
  CASE stage = "EnvInfo" -> "NpmInfo"
    [] stage = "NpmInfo" -> "Format"
    [] stage = "Format" -> "Lint"
    [] stage = "Lint" -> "TypeCheck"
    [] stage = "TypeCheck" -> "UnitTests"
    [] stage = "UnitTests" -> "Playwright"
    [] stage = "Playwright" -> "Complexity"
    [] stage = "Complexity" -> "CoverageGate"
    [] stage = "CoverageGate" -> "Summary"
    [] stage = "Summary" -> "Exit"

\* the order of the script's top-level statements
nextStage(stage) ==
  CASE stage = "EnvInfo" -> "NpmInfo"
    [] stage = "NpmInfo" -> "Format"
    [] stage = "Format" -> "Lint"
    [] stage = "Lint" -> "TypeCheck"
    [] stage = "TypeCheck" -> "UnitTests"
    [] stage = "UnitTests" -> "Playwright"
    [] stage = "Playwright" -> "CoverageGate"
    [] stage = "CoverageGate" -> "Complexity"
    [] stage = "Complexity" -> "Summary"
    [] stage = "Summary" -> "Exit"

EnvInfo ==
  /\ pc = "EnvInfo"
  /\ \E status \in StepStatuses :
       runStep(StepName("Env info"), <<>>, FALSE, FALSE, status, nextStage("EnvInfo"))
  /\ UNCHANGED <<inputs, batVars, scanned, fsWrites, fsProbes, coverageConsumer, playwrightProjects, playwrightIndex,
                 summaryPath, coverageTable>>

NpmInfo ==
  /\ pc = "NpmInfo"
  /\ \E status \in StepStatuses :
       runStep(StepName("NPM info"), <<>>, FALSE, FALSE, status, nextStage("NpmInfo"))
  /\ UNCHANGED <<inputs, batVars, scanned, fsWrites, fsProbes, coverageConsumer, playwrightProjects, playwrightIndex,
                 summaryPath, coverageTable>>

Format ==
  /\ pc = "Format"
  /\ IF hasPrettierTargets
     THEN \E status \in StepStatuses :
            runStep(StepName("Format"), prettierTargetsWithRootGlobs, FALSE, TRUE, status,
                    nextStage("Format"))
     ELSE skipStep("Format SKIP: no eligible source targets", nextStage("Format"))
  /\ UNCHANGED <<inputs, batVars, scanned, fsWrites, fsProbes, coverageConsumer, playwrightProjects, playwrightIndex,
                 summaryPath, coverageTable>>

Lint ==
  /\ pc = "Lint"
  /\ IF hasEslintConfig /\ hasEslintTargets
     THEN \E status \in StepStatuses :
            runStep(StepName("Lint"), ESLINT_TARGETS, TRUE, TRUE, status, nextStage("Lint"))
     ELSE IF hasEslintConfig
          THEN skipStep("Lint SKIP: no eligible source targets for ESLint", nextStage("Lint"))
          ELSE skipStep("Lint SKIP: no ESLint config found", nextStage("Lint"))
  /\ UNCHANGED <<inputs, batVars, scanned, fsWrites, fsProbes, coverageConsumer, playwrightProjects, playwrightIndex,
                 summaryPath, coverageTable>>

TypeCheck ==
  /\ pc = "TypeCheck"
  /\ IF hasTsConfig
     THEN \E status \in StepStatuses :
            runStep(StepName("TypeCheck"), <<>>, FALSE, TRUE, status, nextStage("TypeCheck"))
     ELSE skipStep("TypeCheck SKIP: no tsconfig.json", nextStage("TypeCheck"))
  /\ UNCHANGED <<inputs, batVars, scanned, fsWrites, fsProbes, coverageConsumer, playwrightProjects, playwrightIndex,
                 summaryPath, coverageTable>>

\* the chain with its first two tests swapped
testToolJestFirst ==
  IF usesJest THEN "jest"
  ELSE IF usesVitest THEN "vitest"
  ELSE IF unitScriptName # NoScript THEN "c8" ELSE "none"

\* the branch the if / else-if chain of the unit-test block takes
testTool ==
  IF usesVitest THEN "vitest"
  ELSE IF usesJest THEN "jest"
  ELSE IF unitScriptName # NoScript THEN "c8" ELSE "none"

\* a unit-test step that is allowed to fail
unitTestsMayFail == TRUE

\* the unit-test steps are given no allowFailure, which then defaults to false
unitTestsAllowFailure == FALSE

UnitTests ==
  /\ pc = "UnitTests"
  /\ IF testTool = "vitest"
     THEN \E status \in StepStatuses :
            runStep(UnitTestsName("vitest"), <<>>, unitTestsAllowFailure, TRUE, status, nextStage("UnitTests"))
     ELSE IF testTool = "jest"
     THEN \E status \in StepStatuses :
            runStep(UnitTestsName("jest"), <<>>, unitTestsAllowFailure, TRUE, status, nextStage("UnitTests"))
     ELSE IF testTool = "c8"
     THEN \E status \in StepStatuses :
            runStep(UnitTestsName(unitScriptName), <<>>, unitTestsAllowFailure, TRUE, status,
                    nextStage("UnitTests"))
     ELSE skipStep("Unit Tests SKIP: no supported test runner configured",
                   nextStage("UnitTests"))
  /\ coverageConsumer' = IF pc' = "Exit" THEN coverageConsumer ELSE testTool
  /\ UNCHANGED <<inputs, batVars, scanned, fsWrites, fsProbes, playwrightProjects, playwrightIndex, summaryPath, coverageTable>>

IGNORED_SCAN_DIRS == { <<"node_modules">>, <<".", "git">>, <<"dist">>, <<"artifacts">>, <<"coverage">>, <<"coverage-report">>, <<"coverage-reports">>, <<"logs">>, <<"obj">>, <<"bin">>, <<"reports">> }

MAX_SCAN_DEPTH == 4

\* a directory read by a scan that started at start
Scanned(scan, start, read) == [scan |-> scan, start |-> start, dir |-> read.dir, depth |-> read.depth]

\* the entries of readdirSync(base) that are directories, by their segments
subdirectories(base) == {segs \in {Split(path, "/") : path \in rootDirs} : Len(segs) = Len(base) + 1 /\ SubSeq(segs, 1, Len(base)) = base}

\* a scan that never stops for depth
beyondNever(depth, max) == FALSE

\* "depth > MAX_..." at the head of both scans
beyond(depth, max) == depth > max

RECURSIVE enumDirectories(_, _)
\* the directories pushed to acc: base and, through the entries that are
\* directories with a name not ignored, what the calls with depth + 1 push
enumDirectories(base, depth) ==
  IF beyond(depth, MAX_SCAN_DEPTH) THEN {}
  ELSE {[dir |-> base, depth |-> depth]} \cup UNION {enumDirectories(entry, depth + 1) : entry \in {e \in subdirectories(base) : e[Len(e)] \notin IGNORED_SCAN_DIRS}}

\* a scan for Playwright projects made with the other detections, before any step
playwrightProbeAtStart == Probe("Playwright projects", "Playwright", 0)

\* findPlaywrightProjects() reads the directories under ROOT where it is called
playwrightProbe == Probe("Playwright projects", "Playwright", Len(stepsRun))

findPlaywrightProjects ==
  /\ pc = "Playwright"
  /\ IF ~shouldRunPlaywright
     THEN /\ skipStep("Playwright SKIP: add --run-playwright-tests to enable Playwright execution",
                      nextStage("Playwright"))
          /\ playwrightProjects' = 0
          /\ fsProbes' = fsProbes
          /\ scanned' = scanned
     ELSE \E found \in 0..MaxProjects :
            /\ playwrightProjects' = found
            /\ fsProbes' = fsProbes \cup {playwrightProbe}
            /\ scanned' = scanned \cup {Scanned("enumDirectories", <<>>, read) : read \in enumDirectories(<<>>, 0)}
            /\ IF found > 0
               THEN /\ pc' = "PlaywrightLoop"
                    /\ UNCHANGED <<events, softFailures, exitCode>>
               ELSE skipStep("Playwright SKIP: no Playwright projects detected",
                             nextStage("Playwright"))
  /\ UNCHANGED <<inputs, batVars, fsWrites, coverageConsumer, playwrightIndex, summaryPath, coverageTable>>

\* the project's playwright-report/<artifact>: not there, copied to
\* REPORT_DIR, or there with copyFileSync throwing
ReportOutcomes == {"absent", "copied", "failed"}

PlaywrightProject ==
  /\ pc = "PlaywrightLoop"
  /\ \E status \in StepStatuses :
       runStep(PlaywrightName(playwrightIndex + 1), <<>>, TRUE, FALSE, status,
               IF playwrightIndex + 1 = playwrightProjects THEN nextStage("Playwright")
               ELSE "PlaywrightLoop")
  /\ playwrightIndex' = playwrightIndex + 1
  /\ \E report \in ReportOutcomes :
       fsWrites' = IF report = "copied"
                   THEN fsWrites \cup {FsWrite("copy", REPORT_DIR, playwrightIndex + 1)}
                   ELSE fsWrites
  /\ fsProbes' = fsProbes \cup {Probe("Playwright report", "", Len(stepsRun) + 1)}
  /\ UNCHANGED <<inputs, batVars, scanned, coverageConsumer, playwrightProjects, summaryPath, coverageTable>>

---------------------------------------------------------------------------
(* Coverage gate *)

CoverageCandidates ==
  <<"coverage/coverage-summary.json", "coverage/v8/coverage-summary.json",
    "artifacts/coverage/coverage-summary.json">>

NoPath == "null"

RECURSIVE firstExisting(_)
firstExisting(candidates) ==
  IF candidates = <<>> THEN NoPath
  ELSE IF candidates[1] \in coverageFiles THEN candidates[1]
  ELSE firstExisting(Tail(candidates))

findCoverageSummary == firstExisting(CoverageCandidates)

\* a pct field of the summary: missing, a number, or text such as "Unknown"
NoPct == [kind |-> "absent", v |-> 0]
PctNumber(n) == [kind |-> "number", v |-> n]
PctText == [kind |-> "text", v |-> 0]

\* a missing pct read as not-a-number
pctOrNaN(raw) == IF raw.kind = "number" THEN Num(raw.v) ELSE NaN

\* Number(section.pct ?? 0)
pctOf(raw) ==
  IF raw.kind = "absent" THEN Num(0)
  ELSE IF raw.kind = "number" THEN Num(raw.v) ELSE NaN

Metrics == <<"lines", "statements", "branches", "functions">>

\* readJSON(summaryPath) ?? {}: a file that does not parse reads as {}
metrics ==
  [i \in 1..Len(Metrics) |->
     [metric |-> Metrics[i],
      pct |-> IF summaryData.parsed THEN pctOf(summaryData[Metrics[i]]) ELSE Num(0)]]

linePct == (CHOOSE item \in Range(metrics) : item.metric = "lines").pct

rowStatus(pct) == IF AtLeast(pct, COVERAGE_THRESHOLD) THEN "OK" ELSE "WARN"

\* a gate that any metric below the threshold fails
gateFailsOnAnyMetric == \E item \in Range(metrics) : Less(item.pct, COVERAGE_THRESHOLD)

gateFails == Less(linePct, COVERAGE_THRESHOLD)

gateLines(verdict) ==
  << LineEvent("Coverage metrics (total):", <<>>),
     LineEvent("Coverage analytics JSON:", <<>>),
     LineEvent(verdict, <<>>) >>

\* a failed gate that is only reported
coverageFailContinues ==
  /\ events' = events \o gateLines("COVERAGE FAIL")
  /\ pc' = nextStage("CoverageGate")
  /\ exitCode' = exitCode

coverageFail ==
  /\ events' = events \o gateLines("COVERAGE FAIL")
  /\ pc' = "Exit"
  /\ exitCode' = 1

coverageOk ==
  /\ events' = events \o gateLines("COVERAGE OK")
  /\ pc' = nextStage("CoverageGate")
  /\ exitCode' = exitCode

\* a missing summary that fails the build
summaryMissingFails ==
  /\ events' = Append(events,
       LineEvent("Coverage summary not found. Threshold check skip.", <<>>))
  /\ pc' = "Exit"
  /\ exitCode' = 1
  /\ UNCHANGED coverageTable

summaryMissing ==
  /\ events' = Append(events,
       LineEvent("Coverage summary not found. Threshold check skip.", <<>>))
  /\ pc' = nextStage("CoverageGate")
  /\ UNCHANGED <<exitCode, coverageTable>>

CoverageGate ==
  /\ pc = "CoverageGate"
  /\ IF coverageConsumer = "none"
     THEN /\ pc' = nextStage("CoverageGate")
          /\ UNCHANGED <<events, exitCode, summaryPath, coverageTable, fsProbes>>
     ELSE /\ summaryPath' = findCoverageSummary
          /\ fsProbes' = fsProbes \cup {Probe("coverage summary", "", Len(stepsRun))}
          /\ IF summaryPath' = NoPath
             THEN summaryMissing
             ELSE /\ coverageTable' =
                       [i \in 1..Len(metrics) |->
                          [metric |-> metrics[i].metric, pct |-> metrics[i].pct,
                           status |-> rowStatus(metrics[i].pct)]]
                  /\ IF gateFails THEN coverageFail ELSE coverageOk
  /\ UNCHANGED <<inputs, batVars, scanned, fsWrites, softFailures, coverageConsumer, playwrightProjects, playwrightIndex>>

---------------------------------------------------------------------------
(* Complexity and summary *)

COMPLEXITY_PRUNE_DIRS ==
  { <<"dist">>, <<"node_modules">>, <<"artifacts">>, <<"coverage">>, <<"build">> }

MAX_COMPLEXITY_PRUNE_DEPTH == 4

\* pruneComplexityArtifacts(join(ROOT, target)) calls rmSync on the directory
\* at path: path lies below the target, its name is a pruned one, no directory
\* between the target and it has a pruned name (the walk does not enter
\* those), and the walk, which reads the target at depth 0, reaches its parent
prunedUnder(target, path) ==
  LET base == Resolve(Split(target, "/"), <<>>)
      segs == Split(path, "/")
      below == Len(segs) - Len(base)
  IN  /\ existsUnderRoot(target)
      /\ below >= 1
      /\ SubSeq(segs, 1, Len(base)) = base
      /\ below - 1 <= MAX_COMPLEXITY_PRUNE_DEPTH
      /\ segs[Len(segs)] \in COMPLEXITY_PRUNE_DIRS
      /\ \A j \in (Len(base) + 1)..(Len(segs) - 1) : segs[j] \notin COMPLEXITY_PRUNE_DIRS

RECURSIVE pruneComplexityArtifacts(_, _)
\* the directories pruneComplexityArtifacts reads: basePath and, through the
\* entries that are directories and are not removed, those of the calls
\* with depth + 1
pruneComplexityArtifacts(basePath, depth) ==
  IF beyond(depth, MAX_COMPLEXITY_PRUNE_DEPTH) \/ ~existsUnderRoot(JoinSegments(basePath)) THEN {}
  ELSE {[dir |-> basePath, depth |-> depth]} \cup UNION {pruneComplexityArtifacts(entry, depth + 1) : entry \in {e \in subdirectories(basePath) : e[Len(e)] \notin COMPLEXITY_PRUNE_DIRS}}

\* what the loop of pruneComplexitySources reads, target by target
pruneComplexityReads == UNION {LET base == Resolve(Split(COMPLEXITY_TARGETS[i], "/"), <<>>) IN {Scanned("pruneComplexityArtifacts", base, read) : read \in pruneComplexityArtifacts(base, 0)} : i \in 1..Len(COMPLEXITY_TARGETS)}

\* a run that prunes nothing
pruneNothing == {}

\* the directories pruneComplexitySources removes
pruneComplexitySources ==
  {FsWrite("rm", path, 0) :
     path \in {p \in rootDirs :
                 \E i \in 1..Len(COMPLEXITY_TARGETS) : prunedUnder(COMPLEXITY_TARGETS[i], p)}}

Complexity ==
  /\ pc = "Complexity"
  /\ IF Len(COMPLEXITY_TARGETS) > 0
     THEN /\ fsWrites' = fsWrites \cup pruneComplexitySources
          /\ scanned' = scanned \cup pruneComplexityReads
          /\ fsProbes' = fsProbes \cup {Probe("complexity targets", "", Len(stepsRun))}
          /\ \E status \in StepStatuses :
               runStep(StepName("Complexity"), COMPLEXITY_TARGETS, TRUE, FALSE, status,
                       nextStage("Complexity"))
     ELSE /\ UNCHANGED <<fsWrites, fsProbes, scanned>>
          /\ skipStep("Complexity SKIP: no eligible complexity targets",
                      nextStage("Complexity"))
  /\ UNCHANGED <<inputs, batVars, coverageConsumer, playwrightProjects, playwrightIndex,
                 summaryPath, coverageTable>>

\* the summary line chosen by a test that is always true
summaryLineAlwaysIssues ==
  LineEvent("Build completed with issues", [i \in 1..Len(softFailures) |-> softFailures[i].name])

\* the summary line chosen without looking at softFailures
summaryLineAlwaysOk == LineEvent("All steps OK", <<>>)

summaryLine ==
  IF Len(softFailures) > 0
  THEN LineEvent("Build completed with issues",
                 [i \in 1..Len(softFailures) |-> softFailures[i].name])
  ELSE LineEvent("All steps OK", <<>>)

Summary ==
  /\ pc = "Summary"
  /\ events' = Append(events, summaryLine)
  /\ pc' = nextStage("Summary")
  /\ exitCode' = 0
  /\ UNCHANGED <<inputs, batVars, scanned, fsWrites, fsProbes, softFailures, coverageConsumer, playwrightProjects, playwrightIndex,
                 summaryPath, coverageTable>>

---------------------------------------------------------------------------
(* build-full.bat and the stage scripts                                     *)
(*                                                                          *)
(* A batch variable that is not defined reads as the empty text, so "" is   *)
(* the undefined SOLUTION or FRONTEND_SCRIPT.  MIN_COVERAGE is a record     *)
(* [defined, value] with an integer value.  cmd.exe reads a parenthesised   *)
(* block up to the first ")" that is neither quoted nor escaped, wherever   *)
(* it stands: a ")" at the end of an echo's text ends the block, and the    *)
(* lines after it are commands of their own.  A ")" where a command is      *)
(* expected outside every block is skipped like a REM.                      *)

BatFlags == {"--help", "--frontend", "--frontend-only", "--backend-only", "--skip-format", "--skip-build", "--skip-tests", "--skip-coverage-report", "--skip-coverage-validate", "--verbose"}

NotSet == [defined |-> FALSE, value |-> 0]

SetTo(value) == [defined |-> TRUE, value |-> value]

\* no build.config.bat in the project root
NoConfig == [exists |-> FALSE, loads |-> TRUE, SOLUTION |-> "", MIN_COVERAGE |-> NotSet, FRONTEND_SCRIPT |-> ""]

\* build.config.bat as the template writes it; loads: the call leaves ERRORLEVEL 0
TemplateConfig(loads) == [exists |-> TRUE, loads |-> loads, SOLUTION |-> "YourSolution.sln", MIN_COVERAGE |-> SetTo(70), FRONTEND_SCRIPT |-> "frontend-build.bat"]

\* the variables cmd.exe starts a script with
OsEnv(solution, minCoverage, frontendScript) == [SOLUTION |-> solution, MIN_COVERAGE |-> minCoverage, FRONTEND_SCRIPT |-> frontendScript]

\* artifacts\coverage\report\Summary.txt: missing, without a line coverage
\* that can be read, or with the integer part of its line coverage
NoSummary == [kind |-> "missing", COVERAGE_INT |-> 0]

UnparsedSummary == [kind |-> "unparsed", COVERAGE_INT |-> 0]

SummaryTxt(int) == [kind |-> "parsed", COVERAGE_INT |-> int]

\* what a script is started in
DotnetProject(os, config, scriptsDir, slnOnDisk, dotnetOnPath, frontendOnDisk, summary) == [os |-> os, config |-> config, scriptsDir |-> scriptsDir, slnOnDisk |-> slnOnDisk, dotnetOnPath |-> dotnetOnPath, frontendOnDisk |-> frontendOnDisk, summary |-> summary]

\* build-full.bat lines 22-29, over the inherited environment
DefaultStageFlags(os) == [RUN_BACKEND |-> 1, RUN_FRONTEND |-> 0, RUN_FORMAT |-> 1, RUN_BUILD |-> 1, RUN_TESTS |-> 1, RUN_COV_REPORT |-> 1, RUN_COV_VALIDATE |-> 1, DISPLAY_HELP |-> 0, VERBOSE_MODE |-> 0, SOLUTION |-> os.SOLUTION, MIN_COVERAGE |-> os.MIN_COVERAGE, FRONTEND_SCRIPT |-> os.FRONTEND_SCRIPT, ERRORLEVEL |-> 0]

\* one round of the :parse_args loop
parseArg(e, ARG) ==
  CASE ARG = "--help" -> [e EXCEPT !.DISPLAY_HELP = 1]
    [] ARG = "--frontend" -> [e EXCEPT !.RUN_FRONTEND = 1]
    [] ARG = "--frontend-only" -> [e EXCEPT !.RUN_FRONTEND = 1, !.RUN_BACKEND = 0]
    [] ARG = "--backend-only" -> [e EXCEPT !.RUN_BACKEND = 1, !.RUN_FRONTEND = 0]
    [] ARG = "--skip-format" -> [e EXCEPT !.RUN_FORMAT = 0]
    [] ARG = "--skip-build" -> [e EXCEPT !.RUN_BUILD = 0]
    [] ARG = "--skip-tests" -> [e EXCEPT !.RUN_TESTS = 0, !.RUN_COV_REPORT = 0, !.RUN_COV_VALIDATE = 0]
    [] ARG = "--skip-coverage-report" -> [e EXCEPT !.RUN_COV_REPORT = 0]
    [] ARG = "--skip-coverage-validate" -> [e EXCEPT !.RUN_COV_VALIDATE = 0]
    [] OTHER -> e

RECURSIVE parseArgs(_, _)
parseArgs(e, args) == IF args = <<>> THEN e ELSE parseArgs(parseArg(e, Head(args)), Tail(args))

\* lines 77-88
stageDependencies(e) ==
  LET b == IF e.RUN_BACKEND = 0
           THEN [e EXCEPT !.RUN_FORMAT = 0, !.RUN_BUILD = 0, !.RUN_TESTS = 0, !.RUN_COV_REPORT = 0, !.RUN_COV_VALIDATE = 0]
           ELSE e
  IN IF b.RUN_TESTS = 0 THEN [b EXCEPT !.RUN_COV_REPORT = 0, !.RUN_COV_VALIDATE = 0] ELSE b

\* "if errorlevel 1": the exit code is 1 or more
errorlevel1(code) == code >= 1

BatStage(stage, code) == [stage |-> stage, code |-> code]

\* a line inside "if ... (": its command, and whether its text holds a ")"
\* outside quotes
BlockLine(line, command, paren) == [line |-> line, command |-> command, paren |-> paren]

\* the lines after "if not exist "%BUILD_SCRIPTS_DIR%" (", line 104
VerifyBlock == <<BlockLine(105, "echo", FALSE), BlockLine(106, "echo", FALSE), BlockLine(107, "echo", FALSE), BlockLine(108, "echo", FALSE), BlockLine(109, "echo", TRUE), BlockLine(110, "echo", FALSE), BlockLine(111, "echo", FALSE), BlockLine(112, "echo", FALSE), BlockLine(113, "echo", FALSE), BlockLine(114, "echo", TRUE), BlockLine(115, "echo", FALSE), BlockLine(116, "echo", FALSE), BlockLine(117, "goto :error_missing", FALSE), BlockLine(118, ")", TRUE)>>

\* the line that ends a block: the first with a ")"
blockEnd(lines) == CHOOSE i \in 1..Len(lines) : lines[i].paren /\ \A j \in 1..(i - 1) : ~lines[j].paren

\* the commands that follow the block and run whatever its "if" found
unguarded(lines) == {lines[i].command : i \in (blockEnd(lines) + 1)..Len(lines)}

parse_args ==
  /\ batPc = "parse_args"
  /\ cmdEnv' = parseArgs(cmdEnv, batArgs)
  /\ batPc' = "args_done"
  /\ UNCHANGED <<jsVars, batArgs, dotnetProject, stagesRun, batExit, rawCoverage>>

\* lines 68-93: the help, the stage dependencies, nothing to run
StageDependencyLogic ==
  /\ batPc = "args_done"
  /\ IF cmdEnv.DISPLAY_HELP = 1
     THEN /\ batPc' = "exit"
          /\ batExit' = 0
          /\ UNCHANGED cmdEnv
     ELSE LET e == stageDependencies(cmdEnv)
          IN /\ cmdEnv' = e
             /\ IF e.RUN_BACKEND = 0 /\ e.RUN_FRONTEND = 0
                THEN batPc' = "exit" /\ batExit' = 0
                ELSE batPc' = "script_paths" /\ UNCHANGED batExit
  /\ UNCHANGED <<jsVars, batArgs, dotnetProject, stagesRun, rawCoverage>>

\* init.bat, which has no setlocal: what it sets stays set in its caller
initBat(e, project, args) ==
  LET defaults == [e EXCEPT !.SOLUTION = "", !.MIN_COVERAGE = SetTo(1), !.VERBOSE_MODE = 0]
      config == project.config
      loaded == IF config.exists
                THEN [defaults EXCEPT !.SOLUTION = config.SOLUTION, !.MIN_COVERAGE = config.MIN_COVERAGE, !.FRONTEND_SCRIPT = config.FRONTEND_SCRIPT]
                ELSE defaults
      verbose == IF \E i \in 1..Len(args) : args[i] = "--verbose"
                 THEN [loaded EXCEPT !.VERBOSE_MODE = 1]
                 ELSE loaded
      detected == IF verbose.SOLUTION = "" /\ project.slnOnDisk
                  THEN [verbose EXCEPT !.SOLUTION = "Found.sln"]
                  ELSE verbose
  IN IF config.exists /\ ~config.loads THEN [env |-> loaded, code |-> 1]
     ELSE IF detected.SOLUTION = "" THEN [env |-> detected, code |-> 1]
     ELSE IF ~project.dotnetOnPath THEN [env |-> detected, code |-> 1]
     ELSE [env |-> detected, code |-> 0]

\* Summary.txt given by its content: the text that follows "Line coverage:"
\* on the first line that holds it, or NoLine
NoLine == <<"no such line">>

SummaryFile(text) == [kind |-> "file", COVERAGE_INT |-> 0, text |-> text]

\* for /f "tokens=... delims=...": the text split at runs of delimiters,
\* leading delimiters skipped
RECURSIVE forTokens(_, _, _)
forTokens(text, delims, current) ==
  IF text = <<>> THEN (IF current = <<>> THEN <<>> ELSE <<current>>)
  ELSE IF Head(text) \in delims
       THEN (IF current = <<>> THEN <<>> ELSE <<current>>) \o forTokens(Tail(text), delims, <<>>)
       ELSE forTokens(Tail(text), delims, Append(current, Head(text)))

\* the second expansion that "call" makes: a "%" without a partner is dropped
callExpansion(text) == SelectSeq(text, LAMBDA c : c # "%")

\* line 25's "%" between quotes, as the parser leaves it: a lone "%" on a
\* line of a batch file is dropped, so the last character is compared with ""
percentLiteral == callExpansion(<<"%">>)

\* what the decimal text of a number would compare as, were "if" to compare
\* texts: character by character
RECURSIVE textLess(_, _)
textLess(a, b) ==
  IF b = <<>> THEN FALSE
  ELSE IF a = <<>> THEN TRUE
  ELSE IF Head(a) # Head(b) THEN DigitValue(Head(a)) < DigitValue(Head(b))
  ELSE textLess(Tail(a), Tail(b))

DigitOf(n) == CHOOSE c \in Digits : DigitValue(c) = n

RECURSIVE DecimalText(_)
DecimalText(n) == IF n < 10 THEN <<DigitOf(n)>> ELSE Append(DecimalText(n \div 10), DigitOf(n % 10))

LSSAsText(a, b) == textLess(DecimalText(a), DecimalText(b))

\* "if a LSS b" on two texts made of digits: the numbers are compared
LSS(a, b) == a < b

\* lines 10-35: from the file to COVERAGE_INT
readSummary(summary) ==
  IF summary.kind # "file" THEN summary
  ELSE IF summary.text = NoLine THEN UnparsedSummary
  ELSE LET tokens == forTokens(<<"L", "i", "n", "e", " ", "c", "o", "v", "e", "r", "a", "g", "e", ":">> \o summary.text, {":", " "}, <<>>)
           COVERAGE_PERCENT_RAW == IF Len(tokens) < 3 THEN <<>> ELSE callExpansion(tokens[3])
           stripped == IF COVERAGE_PERCENT_RAW # <<>> /\ <<COVERAGE_PERCENT_RAW[Len(COVERAGE_PERCENT_RAW)]>> = percentLiteral
                       THEN SubSeq(COVERAGE_PERCENT_RAW, 1, Len(COVERAGE_PERCENT_RAW) - 1)
                       ELSE COVERAGE_PERCENT_RAW
           COVERAGE_PERCENT == SelectSeq(stripped, LAMBDA c : c # " ")
           parts == forTokens(COVERAGE_PERCENT, {"."}, <<>>)
       IN IF parts = <<>> THEN UnparsedSummary ELSE SummaryTxt(DecimalValue(parts[1]))

\* validate-coverage.bat: its EXIT_CODE
validateCoverage(e, summary) ==
  LET read == readSummary(summary)
  IN IF read.kind # "parsed" THEN 0
     ELSE IF LSS(read.COVERAGE_INT, e.MIN_COVERAGE.value) THEN 1
     ELSE 0

\* the stages whose exit code comes from the tool they run
ToolStages == {"format", "build", "tests", "coverage report", "frontend"}

\* the calls of lines 128-156 after init.bat; %RUN_...% was expanded when
\* the block of line 124 was read
stageCalls(e) == SelectSeq(<<"format", "build", "tests", "coverage report", "coverage validation", "finalize">>, LAMBDA stage : CASE stage = "format" -> e.RUN_FORMAT = 1 [] stage = "build" -> e.RUN_BUILD = 1 [] stage = "tests" -> e.RUN_TESTS = 1 [] stage = "coverage report" -> e.RUN_COV_REPORT = 1 [] stage = "coverage validation" -> e.RUN_COV_VALIDATE = 1 [] OTHER -> TRUE)

\* finalize.bat ends with exit /b 0
stageCode(stage, e, project, codes) == IF stage = "coverage validation" THEN validateCoverage(e, project.summary) ELSE IF stage = "finalize" THEN 0 ELSE codes[stage]

\* call after call, each followed by "if errorlevel 1 goto :error"
RECURSIVE callStages(_, _, _, _, _)
callStages(stages, ran, e, project, codes) ==
  IF stages = <<>> THEN [env |-> e, ran |-> ran, exit |-> 0, ended |-> FALSE]
  ELSE LET code == stageCode(Head(stages), e, project, codes)
           called == Append(ran, BatStage(Head(stages), code))
       IN IF errorlevel1(code)
          THEN [env |-> [e EXCEPT !.ERRORLEVEL = code], ran |-> called, exit |-> code, ended |-> TRUE]
          ELSE callStages(Tail(stages), called, [e EXCEPT !.ERRORLEVEL = code], project, codes)

\* lines 124-158
backendPipeline(e, project, args, codes) ==
  IF e.RUN_BACKEND # 1 THEN [env |-> e, ran |-> <<>>, exit |-> 0, ended |-> FALSE]
  ELSE LET r == initBat(e, project, args)
           after == [r.env EXCEPT !.ERRORLEVEL = r.code]
       IN IF errorlevel1(r.code)
          THEN [env |-> after, ran |-> <<BatStage("init", r.code)>>, exit |-> r.code, ended |-> TRUE]
          ELSE callStages(stageCalls(e), <<BatStage("init", r.code)>>, after, project, codes)

\* lines 164-187, after the backend block
frontendBuild(backend, project, codes) ==
  IF backend.ended THEN backend
  ELSE IF backend.env.RUN_FRONTEND = 1 /\ backend.env.FRONTEND_SCRIPT # "" /\ project.frontendOnDisk
  THEN LET code == codes["frontend"]
       IN [env |-> [backend.env EXCEPT !.ERRORLEVEL = code], ran |-> Append(backend.ran, BatStage("frontend", code)), exit |-> IF errorlevel1(code) THEN code ELSE 0, ended |-> TRUE]
  ELSE [backend EXCEPT !.ended = TRUE]

\* lines 100-199: "goto :error_missing" is taken when the directory is
\* missing, and also when the line stands after the block's end; past it
\* the backend pipeline and the frontend build run to :success or :error
DetermineScriptPaths ==
  /\ batPc = "script_paths"
  /\ IF "goto :error_missing" \in unguarded(VerifyBlock) \/ ~dotnetProject.scriptsDir
     THEN /\ batPc' = "exit"
          /\ batExit' = 1
          /\ UNCHANGED <<cmdEnv, stagesRun>>
     ELSE \E codes \in [ToolStages -> {0, 1}] :
            LET r == frontendBuild(backendPipeline(cmdEnv, dotnetProject, batArgs, codes), dotnetProject, codes)
            IN /\ cmdEnv' = r.env
               /\ stagesRun' = r.ran
               /\ batPc' = "exit"
               /\ batExit' = r.exit
  /\ UNCHANGED <<jsVars, batArgs, dotnetProject, rawCoverage>>

\* scripts\build\init.bat is called
init_bat ==
  /\ batPc = "init"
  /\ LET r == initBat(cmdEnv, dotnetProject, batArgs)
     IN /\ cmdEnv' = [r.env EXCEPT !.ERRORLEVEL = r.code]
        /\ stagesRun' = Append(stagesRun, BatStage("init", r.code))
        /\ IF errorlevel1(r.code)
           THEN batPc' = "exit" /\ batExit' = r.code
           ELSE batPc' = "prompt" /\ UNCHANGED batExit
  /\ UNCHANGED <<jsVars, batArgs, dotnetProject, rawCoverage>>

\* scripts\build\validate-coverage.bat is called
validate_coverage_bat ==
  /\ batPc = "prompt"
  /\ cmdEnv.MIN_COVERAGE.defined
  /\ LET code == validateCoverage(cmdEnv, dotnetProject.summary)
     IN /\ cmdEnv' = [cmdEnv EXCEPT !.ERRORLEVEL = code]
        /\ stagesRun' = Append(stagesRun, BatStage("coverage validation", code))
        /\ batPc' = "exit"
        /\ batExit' = code
  /\ UNCHANGED <<jsVars, batArgs, dotnetProject, rawCoverage>>

\* findstr: 0 when a line holds the text, 1 when none does
findstr(found) == IF found THEN 0 ELSE 1

\* del of a file that is there: cmd.exe leaves ERRORLEVEL as it was, or
\* clears it
del(ERRORLEVEL, clears) == IF clears THEN 0 ELSE ERRORLEVEL

\* build-sln.bat: the commands it runs and its exit code.  After the
\* if/else of lines 9-19 ERRORLEVEL is that of the block's last command
\* that sets it: dotnet build with --verbose, and without it findstr, or del.
buildSln(VERBOSE_MODE, build, warnings, delClears) ==
  LET probe == findstr(warnings)
      ERRORLEVEL == IF VERBOSE_MODE = 1 THEN build ELSE del(probe, delClears)
      commands == IF VERBOSE_MODE = 1
                  THEN <<BatStage("dotnet build", build)>>
                  ELSE <<BatStage("dotnet build", build), BatStage("findstr", probe), BatStage("del", ERRORLEVEL)>>
  IN IF errorlevel1(ERRORLEVEL)
     THEN [ran |-> Append(commands, BatStage("dotnet build --verbosity minimal", build)), code |-> 1]
     ELSE [ran |-> commands, code |-> 0]

\* scripts\build\build-sln.bat is called
build_sln_bat ==
  /\ batPc = "prompt"
  /\ \E build \in {0, 1}, warnings \in BOOLEAN, delClears \in BOOLEAN :
       LET r == buildSln(cmdEnv.VERBOSE_MODE, build, warnings, delClears)
       IN /\ cmdEnv' = [cmdEnv EXCEPT !.ERRORLEVEL = r.code]
          /\ stagesRun' = Append(stagesRun \o r.ran, BatStage("build", r.code))
          /\ batPc' = "exit"
          /\ batExit' = r.code
  /\ UNCHANGED <<jsVars, batArgs, dotnetProject, rawCoverage>>

\* what a dotnet test run leaves: its exit code, and under the results
\* directory nothing, results without coverage.cobertura.xml, or that file
TestRuns == [code : {0, 1}, writes : {"nothing", "results", "coverage"}]

\* a lookup whose failure is a warning and no more
coverageLookupIgnored(found) == 0

\* lines 85-95: EXIT_CODE after the lookup, by whether COVERAGE_SOURCE is
\* defined
coverageLookup(found) == IF found THEN 0 ELSE 1

\* run-tests.bat.  The ")" of line 56 ends the block of line 48 and that of
\* line 58 the block of line 57, so lines 59, 61, 63 and 65 are skipped and
\* the dotnet test of line 64 runs with and without --verbose.
runTests(VERBOSE_MODE, raw, tests) ==
  LET stale == IF raw # "absent" THEN <<BatStage("rd raw", 0)>> ELSE <<>>
      dotnetTest == BatStage("dotnet test", tests.code)
      calls == IF VERBOSE_MODE = 1 THEN <<dotnetTest, dotnetTest>> ELSE <<dotnetTest>>
      written == IF tests.writes = "nothing" THEN "absent" ELSE tests.writes
      found == written = "coverage"
      EXIT_CODE == IF errorlevel1(tests.code) THEN 1 ELSE coverageLookup(found)
      lookup == IF errorlevel1(tests.code) THEN <<>> ELSE <<BatStage("dir coverage.cobertura.xml", findstr(found))>>
      cleanup == IF EXIT_CODE = 0 /\ written # "absent" THEN <<BatStage("rd raw", 0)>> ELSE <<>>
  IN [ran |-> stale \o calls \o lookup \o cleanup, code |-> EXIT_CODE, raw |-> IF cleanup # <<>> THEN "absent" ELSE written]

\* scripts\build\run-tests.bat is called
run_tests_bat ==
  /\ batPc = "prompt"
  /\ \E tests \in TestRuns :
       LET r == runTests(cmdEnv.VERBOSE_MODE, rawCoverage, tests)
       IN /\ cmdEnv' = [cmdEnv EXCEPT !.ERRORLEVEL = r.code]
          /\ stagesRun' = Append(stagesRun \o r.ran, BatStage("tests", r.code))
          /\ rawCoverage' = r.raw
          /\ batPc' = "exit"
          /\ batExit' = r.code
  /\ UNCHANGED <<jsVars, batArgs, dotnetProject>>

NoDotnetProject == DotnetProject(OsEnv("", NotSet, ""), NoConfig, FALSE, FALSE, FALSE, FALSE, NoSummary)

\* no batch script is run
batchNotStarted ==
  /\ batArgs = <<>>
  /\ dotnetProject = NoDotnetProject
  /\ cmdEnv = DefaultStageFlags(NoDotnetProject.os)
  /\ batPc = "idle"
  /\ stagesRun = <<>>
  /\ batExit = 0
  /\ rawCoverage = "absent"

---------------------------------------------------------------------------
(* Runs *)

\* a command line without --src and without --skip-tests
Argv(threshold, includeDirs, excludeDirs, runPlaywrightTests) ==
  [threshold |-> threshold, includeDirs |-> includeDirs, excludeDirs |-> excludeDirs,
   runPlaywrightTests |-> runPlaywrightTests, src |-> Absent, skipTests |-> Absent]

SummaryOf(lines, statements, branches, functions) ==
  [parsed |-> TRUE, lines |-> lines, statements |-> statements, branches |-> branches,
   functions |-> functions]

\* a summary file that is not JSON; also stands for "no file" when none exists
Unparsable ==
  [parsed |-> FALSE, lines |-> NoPct, statements |-> NoPct, branches |-> NoPct,
   functions |-> NoPct]

TextsUpTo(chars, n) == {Str(t) : t \in SeqsUpTo(chars, n)}

\* the inputs of a run: the summary's content is drawn only when a file exists
Given(envs, thresholds, includes, excludes, playwright, files, dirs, manifests, coverage, summaries) ==
  /\ env \in envs
  /\ argv \in {Argv(t, i, e, p) : t \in thresholds, i \in includes, e \in excludes,
                                  p \in playwright}
  /\ rootFiles \in files
  /\ rootDirs \in dirs
  /\ pkg \in manifests
  /\ childOutput = Quiet
  /\ coverageFiles \in coverage
  /\ summaryData \in (IF findCoverageSummary = NoPath THEN {Unparsable} ELSE summaries)

\* the script's first statement
AtStart ==
  /\ pc = "EnvInfo"
  /\ events = <<>>
  /\ softFailures = <<>>
  /\ coverageConsumer = "none"
  /\ playwrightProjects = 0
  /\ playwrightIndex = 0
  /\ summaryPath = NoPath
  /\ fsWrites = startupWrites
  /\ fsProbes = startupProbes
  /\ scanned = {}
  /\ batchNotStarted
  /\ coverageTable = <<>>
  /\ exitCode = 0

VitestManifest ==
  Manifest(Missing, Str(<<"vitest", " ", "run">>), Str(<<"^1">>), Missing, Missing, Missing)
JestManifest == Manifest(Missing, Missing, Missing, Missing, Missing, Str(<<"^29">>))
ScriptManifest ==
  Manifest(Missing, Str(<<"node", " ", "test.js">>), Missing, Missing, Missing, Missing)

Init ==
  /\ Given({Absent}, {Absent, Str(<<"8", "0">>)}, {Absent}, {Absent}, {Absent, Undefined},
           SUBSET {"tsconfig.json", ".eslintrc.json"},
           {{}, {<<"src">>}, {<<"src">>, <<"src", "/", "node_modules">>}},
           {NullPkg, VitestManifest, JestManifest, ScriptManifest},
           {{}, {CoverageCandidates[1]}, {CoverageCandidates[2], CoverageCandidates[3]}},
           {SummaryOf(PctNumber(n), PctNumber(100), PctNumber(100), PctNumber(100)) :
              n \in {69, 80}})
  /\ AtStart

Next ==
  \/ EnvInfo
  \/ NpmInfo
  \/ Format
  \/ Lint
  \/ TypeCheck
  \/ UnitTests
  \/ findPlaywrightProjects
  \/ PlaywrightProject
  \/ CoverageGate
  \/ Complexity
  \/ Summary

Spec == Init /\ [][Next]_vars

\* Env info and NPM info passed
AtFormat ==
  /\ pc = "Format"
  /\ events = << StepEvent(StepName("Env info"), <<>>, TRUE, "OK", FALSE),
                 StepEvent(StepName("NPM info"), <<>>, TRUE, "OK", FALSE) >>
  /\ softFailures = <<>>
  /\ coverageConsumer = "none"
  /\ playwrightProjects = 0
  /\ playwrightIndex = 0
  /\ summaryPath = NoPath
  /\ fsWrites = startupWrites
  /\ fsProbes = startupProbes
  /\ scanned = {}
  /\ batchNotStarted
  /\ coverageTable = <<>>
  /\ exitCode = 0

\* in a project with no ESLint config, no tsconfig.json and no source
\* directory: Format passed too
AtUnitTests ==
  /\ pc = "UnitTests"
  /\ events = << StepEvent(StepName("Env info"), <<>>, TRUE, "OK", FALSE),
                 StepEvent(StepName("NPM info"), <<>>, TRUE, "OK", FALSE),
                 StepEvent(StepName("Format"), DEFAULT_ROOT_FILE_GLOBS, TRUE, "OK", FALSE),
                 LineEvent("Lint SKIP: no ESLint config found", <<>>),
                 LineEvent("TypeCheck SKIP: no tsconfig.json", <<>>) >>
  /\ softFailures = <<>>
  /\ coverageConsumer = "none"
  /\ playwrightProjects = 0
  /\ playwrightIndex = 0
  /\ summaryPath = NoPath
  /\ fsWrites = startupWrites
  /\ fsProbes = startupProbes
  /\ scanned = {}
  /\ batchNotStarted
  /\ coverageTable = <<>>
  /\ exitCode = 0

\* in a project with no ESLint config and no tsconfig.json, whose only source
\* directory is src and which uses vitest, run without --run-playwright-tests:
\* Format and the unit tests passed
AtCoverageGate ==
  /\ pc = "CoverageGate"
  /\ events = << StepEvent(StepName("Env info"), <<>>, TRUE, "OK", FALSE),
                 StepEvent(StepName("NPM info"), <<>>, TRUE, "OK", FALSE),
                 StepEvent(StepName("Format"), << <<"src">> >> \o DEFAULT_ROOT_FILE_GLOBS, TRUE, "OK", FALSE),
                 LineEvent("Lint SKIP: no ESLint config found", <<>>),
                 LineEvent("TypeCheck SKIP: no tsconfig.json", <<>>),
                 StepEvent(UnitTestsName("vitest"), <<>>, TRUE, "OK", FALSE),
                 LineEvent("Playwright SKIP: add --run-playwright-tests to enable Playwright execution",
                           <<>>) >>
  /\ softFailures = <<>>
  /\ coverageConsumer = "vitest"
  /\ playwrightProjects = 0
  /\ playwrightIndex = 0
  /\ summaryPath = NoPath
  /\ fsWrites = startupWrites
  /\ fsProbes = startupProbes
  /\ scanned = {}
  /\ batchNotStarted
  /\ coverageTable = <<>>
  /\ exitCode = 0

(* The coverage gate over every summary: the run is taken up where the gate *)
(* is about to look.                                                        *)

LinePcts == {NoPct, PctText} \cup {PctNumber(n) : n \in {0, 69, 70, 71, 79, 80, 81, 100}}
OtherPcts == {PctText, PctNumber(0), PctNumber(100)}

GateSummaries ==
  {Unparsable} \cup
  {SummaryOf(l, s, b, f) : l \in LinePcts, s \in OtherPcts, b \in OtherPcts, f \in OtherPcts}

InitGate ==
  /\ Given({Absent}, {Absent, Str(<<"8", "0">>)}, {Absent}, {Absent}, {Absent},
           {{}}, {{<<"src">>}}, {VitestManifest},
           SUBSET Range(CoverageCandidates), GateSummaries)
  /\ AtCoverageGate

NextGate ==
  \/ CoverageGate
  \/ Complexity
  \/ Summary

SpecGate == InitGate /\ [][NextGate]_vars

(* The threshold over every COVERAGE_THRESHOLD and --threshold text.        *)

EnvChars == {"0", "8", "a", " "}
FlagChars == {"0", "9", "a"}

InitThreshold ==
  /\ Given({Absent} \cup TextsUpTo(EnvChars, MaxNumChars),
           {Absent, Undefined} \cup TextsUpTo(FlagChars, MaxNumChars),
           {Absent}, {Absent}, {Absent},
           {{}}, {{<<"src">>}}, {VitestManifest},
           {{CoverageCandidates[1]}},
           {SummaryOf(PctNumber(n), PctNumber(100), PctNumber(100), PctNumber(100)) :
              n \in {0, 8, 69, 70, 89, 90}})
  /\ AtCoverageGate

SpecThreshold == InitThreshold /\ [][NextGate]_vars

(* Test-tool detection over every manifest.                                 *)

CmdTokens == {"vitest", "jest", "x", " "}
DepValues == {Missing, Str(<<>>), Str(<<"^1">>)}

AllManifests ==
  {NullPkg} \cup
  {Manifest(tu, t, dv, pv, dj, pj) :
     tu \in {Missing} \cup TextsUpTo(CmdTokens, MaxCmdTokens),
     t \in {Missing} \cup TextsUpTo(CmdTokens, 1),
     dv \in DepValues, pv \in {Missing, Str(<<"^1">>)},
     dj \in DepValues, pj \in {Missing, Str(<<"^1">>)}}

InitDetect ==
  /\ Given({Absent}, {Absent}, {Absent}, {Absent}, {Absent},
           {{}}, {{}}, AllManifests, {{}}, {Unparsable})
  /\ AtUnitTests

NextDetect ==
  \/ UnitTests
  \/ findPlaywrightProjects
  \/ CoverageGate
  \/ Complexity
  \/ Summary

SpecDetect == InitDetect /\ [][NextDetect]_vars

(* Target resolution over every --include-dirs / --exclude-dirs text and    *)
(* every set of directories on disk.                                        *)

IncludeTokens == {"src", "legacy", ",", "."}
ExcludeTokens == {"src", "legacy", ","}

InitTargets ==
  /\ Given({Absent}, {Absent},
           {Absent, Undefined} \cup TextsUpTo(IncludeTokens, MaxListTokens),
           {Absent, Undefined} \cup TextsUpTo(ExcludeTokens, MaxListTokens),
           {Absent},
           {{".eslintrc.json"}}, SUBSET {<<"src">>, <<"legacy">>}, {NullPkg},
           {{}}, {Unparsable})
  /\ AtFormat

NextTargets ==
  \/ Format
  \/ Lint

SpecTargets == InitTargets /\ [][NextTargets]_vars

(* Exclusion of default directories: every --exclude-dirs text over src and *)
(* lib, --include-dirs texts that name src or a path under it, through to   *)
(* the Complexity step.                                                     *)

ExcludedIncludeTokens == {"src", "/", ","}
ExcludedExcludeTokens == {"src", "lib", ","}

InitExclude ==
  /\ Given({Absent}, {Absent},
           {Absent} \cup TextsUpTo(ExcludedIncludeTokens, MaxListTokens),
           TextsUpTo(ExcludedExcludeTokens, MaxListTokens),
           {Absent},
           {{".eslintrc.json"}}, {{<<"src">>}, {<<"src">>, <<"lib">>}}, {NullPkg},
           {{}}, {Unparsable})
  /\ AtFormat

NextExclude ==
  \/ Format
  \/ Lint
  \/ TypeCheck
  \/ UnitTests
  \/ findPlaywrightProjects
  \/ CoverageGate
  \/ Complexity

SpecExclude == InitExclude /\ [][NextExclude]_vars

(* The failure report over every output of a child: empty, short, and      *)
(* around MAX_OUTPUT_CHARS characters, with and without whitespace at its   *)
(* ends.                                                                    *)

OutputBodies ==
  {0, 1, MAX_OUTPUT_CHARS - 1, MAX_OUTPUT_CHARS, MAX_OUTPUT_CHARS + 1, MAX_OUTPUT_CHARS + 2}

Outputs ==
  {Output(lead, body, trail) : lead \in 0..MaxMargin, body \in OutputBodies,
                               trail \in 0..MaxMargin}

InitReport ==
  /\ env = Absent
  /\ argv = Argv(Absent, Absent, Absent, Absent)
  /\ rootFiles = {".eslintrc.json"}
  /\ rootDirs = {<<"src">>}
  /\ pkg = NullPkg
  /\ childOutput \in [stdout : Outputs, stderr : Outputs]
  /\ coverageFiles = {}
  /\ summaryData = Unparsable
  /\ AtFormat

NextReport ==
  \/ Format
  \/ Lint

SpecReport == InitReport /\ [][NextReport]_vars

(* The test blocks with and without --skip-tests on the command line, for   *)
(* each kind of manifest.                                                   *)

InitSkipTests ==
  /\ env = Absent
  /\ \E skip \in {Absent, Undefined}, playwright \in {Absent, Undefined} :
       argv = [Argv(Absent, Absent, Absent, playwright) EXCEPT !.skipTests = skip]
  /\ rootFiles = {}
  /\ rootDirs = {}
  /\ pkg \in {NullPkg, VitestManifest, JestManifest, ScriptManifest}
  /\ childOutput = Quiet
  /\ coverageFiles = {}
  /\ summaryData = Unparsable
  /\ AtUnitTests

NextSkipTests ==
  \/ UnitTests
  \/ findPlaywrightProjects
  \/ PlaywrightProject
  \/ CoverageGate
  \/ Complexity
  \/ Summary

SpecSkipTests == InitSkipTests /\ [][NextSkipTests]_vars

(* The target lists with and without --src, over the directories on disk.  *)

SrcValues == {Absent, Undefined, Str(<<"src">>), Str(<<"legacy">>), Str(<<"lib">>)}

InitSrc ==
  /\ env = Absent
  /\ \E src \in SrcValues : argv = [Argv(Absent, Absent, Absent, Absent) EXCEPT !.src = src]
  /\ rootFiles \in SUBSET {"tsconfig.json", ".eslintrc.json"}
  /\ rootDirs \in SUBSET {<<"src">>, <<"legacy">>, <<"lib">>}
  /\ pkg = NullPkg
  /\ childOutput = Quiet
  /\ coverageFiles = {}
  /\ summaryData = Unparsable
  /\ AtFormat

SpecSrc == InitSrc /\ [][NextExclude]_vars

(* build-full.bat over every command line of up to MaxArgs flags, with and  *)
(* without build.config.bat, the scripts directory and the frontend script. *)

\* build.js is not run
scriptNotStarted ==
  /\ Given({Absent}, {Absent}, {Absent}, {Absent}, {Absent}, {{}}, {{}}, {NullPkg}, {{}}, {Unparsable})
  /\ pc = "idle"
  /\ events = <<>>
  /\ softFailures = <<>>
  /\ coverageConsumer = "none"
  /\ playwrightProjects = 0
  /\ playwrightIndex = 0
  /\ summaryPath = NoPath
  /\ fsWrites = {}
  /\ fsProbes = {}
  /\ scanned = {}
  /\ coverageTable = <<>>
  /\ exitCode = 0

InitOrchestrator ==
  /\ scriptNotStarted
  /\ batArgs \in SeqsUpTo(BatFlags, MaxArgs)
  /\ dotnetProject \in {DotnetProject(OsEnv("", m, ""), c, d, TRUE, TRUE, f, SummaryTxt(75)) : m \in {NotSet, SetTo(80)}, c \in {NoConfig, TemplateConfig(TRUE)}, d \in BOOLEAN, f \in BOOLEAN}
  /\ cmdEnv = DefaultStageFlags(dotnetProject.os)
  /\ batPc = "parse_args"
  /\ stagesRun = <<>>
  /\ batExit = 0
  /\ rawCoverage = "absent"

NextOrchestrator ==
  \/ parse_args
  \/ StageDependencyLogic
  \/ DetermineScriptPaths

SpecOrchestrator == InitOrchestrator /\ [][NextOrchestrator]_vars

(* The stage scripts called from a prompt, init.bat and then                *)
(* validate-coverage.bat, over the environment, build.config.bat and        *)
(* Summary.txt.  The stage flags are not defined at a prompt; no stage      *)
(* script reads them.                                                       *)

PromptEnv(os) == [DefaultStageFlags(os) EXCEPT !.RUN_BACKEND = 0, !.RUN_FORMAT = 0, !.RUN_BUILD = 0, !.RUN_TESTS = 0, !.RUN_COV_REPORT = 0, !.RUN_COV_VALIDATE = 0]

InitStages ==
  /\ scriptNotStarted
  /\ batArgs \in {<<>>, <<"--verbose">>}
  /\ dotnetProject \in {DotnetProject(OsEnv(s, m, ""), c, TRUE, sln, dotnet, FALSE, summary) : s \in {"", "MyApp.sln"}, m \in {NotSet, SetTo(80)}, c \in {NoConfig, TemplateConfig(TRUE), TemplateConfig(FALSE)}, sln \in BOOLEAN, dotnet \in BOOLEAN, summary \in {NoSummary, UnparsedSummary} \cup {SummaryTxt(n) : n \in {0, 69, 70, 75, 80}}}
  /\ cmdEnv = PromptEnv(dotnetProject.os)
  /\ batPc = "init"
  /\ stagesRun = <<>>
  /\ batExit = 0
  /\ rawCoverage = "absent"

NextStages ==
  \/ init_bat
  \/ validate_coverage_bat

SpecStages == InitStages /\ [][NextStages]_vars

(* validate-coverage.bat after init.bat, over the content of Summary.txt    *)
(* and the MIN_COVERAGE that build.config.bat sets.                         *)

ConfigWithMinimum(minimum) == [TemplateConfig(TRUE) EXCEPT !.MIN_COVERAGE = SetTo(minimum)]

\* what ReportGenerator writes after "Line coverage:": a blank, the
\* percentage with or without decimals, a "%"; or nothing
IntegerParts == {<<"0">>, <<"9">>, <<"6", "9">>, <<"7", "0">>, <<"7", "5">>, <<"1", "0", "0">>}

Decimals == {<<>>, <<".", "0">>, <<".", "9">>}

LineCoverageTexts == {<<" ">> \o i \o d \o p : i \in IntegerParts, d \in Decimals, p \in {<<>>, <<"%">>}}

InitValidate ==
  /\ scriptNotStarted
  /\ batArgs = <<>>
  /\ dotnetProject \in {DotnetProject(OsEnv("", NotSet, ""), c, TRUE, TRUE, TRUE, FALSE, summary) : c \in {NoConfig} \cup {ConfigWithMinimum(m) : m \in {9, 70, 75, 100}}, summary \in {NoSummary, SummaryFile(NoLine), SummaryFile(<<>>), SummaryFile(<<" ">>)} \cup {SummaryFile(t) : t \in LineCoverageTexts}}
  /\ cmdEnv = PromptEnv(dotnetProject.os)
  /\ batPc = "init"
  /\ stagesRun = <<>>
  /\ batExit = 0
  /\ rawCoverage = "absent"

SpecValidate == InitValidate /\ [][NextStages]_vars

(* build-sln.bat and run-tests.bat called from a prompt after init.bat, with *)
(* and without --verbose, over what dotnet build and dotnet test do and      *)
(* with or without a results directory from an earlier run.                  *)

InitBuildAndTest ==
  /\ scriptNotStarted
  /\ batArgs \in {<<>>, <<"--verbose">>}
  /\ dotnetProject \in {DotnetProject(OsEnv("", NotSet, ""), c, TRUE, sln, dotnet, FALSE, NoSummary) : c \in {NoConfig, TemplateConfig(TRUE)}, sln \in BOOLEAN, dotnet \in BOOLEAN}
  /\ cmdEnv = PromptEnv(dotnetProject.os)
  /\ batPc = "init"
  /\ stagesRun = <<>>
  /\ batExit = 0
  /\ rawCoverage \in {"absent", "results", "coverage"}

NextBuildAndTest ==
  \/ init_bat
  \/ build_sln_bat
  \/ run_tests_bat

SpecBuildAndTest == InitBuildAndTest /\ [][NextBuildAndTest]_vars

(* Pruning before the Complexity step, over trees that hold directories    *)
(* with pruned names inside and outside the targets, and --include-dirs     *)
(* texts that name a directory inside src.                                  *)

PruneIncludes == {Absent, Str(<<"src", "/", "build">>), Str(<<"src", "/", "lib">>)}

PruneTrees == {{<<"src">>}, {<<"src">>, <<"src", "/", "build">>, <<"build">>}, {<<"src">>, <<"src", "/", "build">>, <<"src", "/", "build", "/", "node_modules">>}, {<<"src">>, <<"src", "/", "lib">>, <<"src", "/", "lib", "/", "dist">>, <<"lib">>, <<"lib", "/", "coverage">>, <<"dist">>}}

InitPrune ==
  /\ Given({Absent}, {Absent}, PruneIncludes, {Absent}, {Absent}, {{".eslintrc.json"}}, PruneTrees, {NullPkg}, {{}}, {Unparsable})
  /\ AtFormat

SpecPrune == InitPrune /\ [][NextExclude]_vars

(* Target resolution for --include-dirs names that begin with "." or "./", *)
(* over trees that hold dot directories.                                    *)

DotIncludes == {Str(<<".", "storybook">>), Str(<<".", "/", "src">>), Str(<<".", "/", ".", "storybook">>), Str(<<"legacy">>), Str(<<"legacy", ",", ".", "storybook">>)}

InitDotDirs ==
  /\ Given({Absent}, {Absent}, DotIncludes, {Absent, Str(<<"legacy">>)}, {Absent}, {{".eslintrc.json"}}, SUBSET {<<"src">>, <<"legacy">>, <<".", "storybook">>, <<"storybook">>}, {NullPkg}, {{}}, {Unparsable})
  /\ AtFormat

SpecDotDirs == InitDotDirs /\ [][NextTargets]_vars


(* Whole runs under fairness, over trees deeper than the scans go: a chain   *)
(* of six directories under src with a dist at its fifth level.  Every step  *)
(* of the script is a spawnSync that returns when the child exits, so a run  *)
(* where every child exits keeps taking steps while one is enabled.          *)

DeepChain == << <<"src">>, <<"a">>, <<"b">>, <<"c">>, <<"d">>, <<"e">> >>

DeepTree == {JoinSegments(SubSeq(DeepChain, 1, k)) : k \in 1..Len(DeepChain)} \cup {JoinSegments(SubSeq(DeepChain, 1, 5) \o << <<"dist">> >>)}

InitTermination ==
  /\ Given({Absent}, {Absent}, {Absent}, {Absent}, {Absent, Undefined}, SUBSET {"tsconfig.json", ".eslintrc.json"}, {{}, {<<"src">>}, DeepTree}, {NullPkg, VitestManifest}, {{}, {CoverageCandidates[1]}}, {SummaryOf(PctNumber(80), PctNumber(100), PctNumber(100), PctNumber(100))})
  /\ AtStart

\* where the script can be
Positions == {"EnvInfo", "NpmInfo", "Format", "Lint", "TypeCheck", "UnitTests", "Playwright", "PlaywrightLoop", "CoverageGate", "Complexity", "Summary", "Exit"}

\* the script moves on: to another statement, or to the next Playwright
\* project.  Every step of Next is such a move, and before process exit one
\* is always possible, so weak fairness of it says what weak fairness of
\* Next says: the script does not stop while a statement is left to run.
Proceed ==
  /\ pc # "Exit"
  /\ pc' \in Positions
  /\ playwrightIndex' \in 0..MaxProjects

SpecTermination == InitTermination /\ [][Next]_vars /\ WF_<<pc, playwrightIndex>>(Proceed)

---------------------------------------------------------------------------
(* What a run shows *)

HardSteps == {"Env info", "NPM info", "Format", "TypeCheck", "Unit Tests"}
SoftSteps == {"Lint", "Playwright", "Complexity"}

IsStep(e) == e.kind = "step"
IsLine(e, text) == e.kind = "line" /\ e.label = text

StepEvents == SelectSeq(events, IsStep)
stepNames(evs) == [i \in 1..Len(evs) |-> evs[i].name]

Exited(e) == IsStep(e) /\ ~e.zero
ExitedEvents == SelectSeq(events, Exited)

HardFailureAt(i) == Exited(events[i]) /\ events[i].name.step \in HardSteps
SomeHardFailure == \E i \in 1..Len(events) : HardFailureAt(i)
SomeSoftFailure ==
  \E i \in 1..Len(events) : Exited(events[i]) /\ events[i].name.step \in SoftSteps

Printed(text) == \E i \in 1..Len(events) : IsLine(events[i], text)
LastLine(text) == Len(events) > 0 /\ IsLine(events[Len(events)], text)

SummaryPrinted == Printed("All steps OK") \/ Printed("Build completed with issues")

\* the gate took its summary-found branch, or its summary-missing branch
GateCompared == Printed("Coverage metrics (total):")
GateSkipped == Printed("Coverage summary not found. Threshold check skip.")
GateEvaluated == GateCompared \/ GateSkipped

\* the line percentage as the summary file gives it
summaryLinePct == IF summaryData.parsed THEN pctOf(summaryData.lines) ELSE Num(0)

GateBelow == GateCompared /\ Less(summaryLinePct, COVERAGE_THRESHOLD)

Ran(step) == \E i \in 1..Len(events) : IsStep(events[i]) /\ events[i].name.step = step

\* the steps the project shape enables before the gate, in script order
EnabledBeforePlaywright ==
  << StepName("Env info"), StepName("NPM info") >>
  \o (IF hasPrettierTargets THEN << StepName("Format") >> ELSE <<>>)
  \o (IF hasEslintConfig /\ hasEslintTargets THEN << StepName("Lint") >> ELSE <<>>)
  \o (IF hasTsConfig THEN << StepName("TypeCheck") >> ELSE <<>>)
  \o (IF testTool = "none" THEN <<>>
      ELSE << UnitTestsName(IF testTool = "c8" THEN unitScriptName ELSE testTool) >>)

EnabledPlaywright == [i \in 1..playwrightProjects |-> PlaywrightName(i)]

EnabledComplexity ==
  IF Len(COMPLEXITY_TARGETS) > 0 THEN << StepName("Complexity") >> ELSE <<>>

EnabledSteps == EnabledBeforePlaywright \o EnabledPlaywright \o EnabledComplexity

---------------------------------------------------------------------------
(* C1: once a hard-failure step (Env info, NPM info, Format, TypeCheck,     *)
(* Unit Tests) has exited non-zero, nothing follows it: no later step is    *)
(* started, the coverage gate is not evaluated, the summary is not printed, *)
(* and the process has exited with a non-zero code.                         *)
C1_HardFailureEndsRun ==
  \A i \in 1..Len(events) :
    HardFailureAt(i) =>
      /\ i = Len(events)
      /\ events[i].label = "FAILED"
      /\ ~GateEvaluated
      /\ coverageTable = <<>>
      /\ ~SummaryPrinted
      /\ pc = "Exit"
      /\ exitCode # 0

\* TypeCheck fails after Lint was recorded as a soft failure
C1_Witness ==
  /\ Len(events) > 0
  /\ HardFailureAt(Len(events))
  /\ events[Len(events)].name.step = "TypeCheck"
  /\ Len(softFailures) > 0
  /\ testTool # "none"

(* C2 as stated: in a finished run where no hard-failure step exited        *)
(* non-zero, every enabled step ran, the exit code is 0 and the summary     *)
(* lists every failed soft step in execution order.                         *)
C2_AsStated ==
  (pc = "Exit" /\ ~SomeHardFailure) =>
    /\ stepNames(StepEvents) = EnabledSteps
    /\ exitCode = 0
    /\ SomeSoftFailure =>
         /\ LastLine("Build completed with issues")
         /\ events[Len(events)].names = stepNames(ExitedEvents)

(* C2 as amended: in a finished run where no hard-failure step exited       *)
(* non-zero and the coverage gate did not find line coverage below the      *)
(* threshold, every enabled step ran, the exit code is 0 and the summary    *)
(* lists every failed soft step in execution order.                         *)
C2_SoftFailuresOnly ==
  (pc = "Exit" /\ ~SomeHardFailure /\ ~GateBelow) =>
    /\ stepNames(StepEvents) = EnabledSteps
    /\ exitCode = 0
    /\ SomeSoftFailure =>
         /\ LastLine("Build completed with issues")
         /\ events[Len(events)].names = stepNames(ExitedEvents)

\* Lint, a Playwright project and Complexity all failed softly and the gate passed
C2_Witness ==
  /\ pc = "Exit"
  /\ ~SomeHardFailure
  /\ GateCompared
  /\ ~GateBelow
  /\ Len(ExitedEvents) = 3
  /\ LastLine("Build completed with issues")

(* C3 as stated: in a finished run where every executed step exited with    *)
(* status 0, the exit code is 0 and the summary prints "All steps OK".      *)
C3_AsStated ==
  (pc = "Exit" /\ ExitedEvents = <<>>) => (exitCode = 0 /\ LastLine("All steps OK"))

(* C3 as amended: in a finished run where every executed step exited with   *)
(* status 0 and the coverage gate did not find line coverage below the      *)
(* threshold, the exit code is 0 and the summary prints "All steps OK".     *)
C3_AllStepsOk ==
  (pc = "Exit" /\ ExitedEvents = <<>> /\ ~GateBelow) =>
    (exitCode = 0 /\ LastLine("All steps OK"))

\* every step of a full pipeline passed, and so did the gate
C3_Witness ==
  /\ pc = "Exit"
  /\ ExitedEvents = <<>>
  /\ GateCompared
  /\ Ran("Lint") /\ Ran("TypeCheck") /\ Ran("Playwright") /\ Ran("Complexity")
  /\ LastLine("All steps OK")

(* C5: when the gate found the summary's line coverage below the threshold, *)
(* the process has exited with a non-zero code right there: Complexity did  *)
(* not run and no summary was printed, soft failures or not.                *)
C5_GateFailureEndsRun ==
  GateBelow =>
    /\ LastLine("COVERAGE FAIL")
    /\ pc = "Exit"
    /\ exitCode # 0
    /\ ~Ran("Complexity")
    /\ ~SummaryPrinted

\* the gate fails a run that had recorded a soft failure and has complexity targets
C5_Witness ==
  /\ GateBelow
  /\ Len(softFailures) > 0
  /\ Len(COMPLEXITY_TARGETS) > 0
  /\ pc = "Exit"

\* the first candidate, in the fixed order, that is on disk
firstCandidateOnDisk ==
  IF CoverageCandidates[1] \in coverageFiles THEN CoverageCandidates[1]
  ELSE IF CoverageCandidates[2] \in coverageFiles THEN CoverageCandidates[2]
  ELSE IF CoverageCandidates[3] \in coverageFiles THEN CoverageCandidates[3]
  ELSE NoPath

\* the gate has been passed through after a unit-test step ran
PastGateWithTests ==
  pc \in {"Complexity", "Summary"} \/ (pc = "Exit" /\ (GateEvaluated \/ SummaryPrinted))

(* C6: after a unit-test step ran, when none of the three candidate files   *)
(* exists the gate prints the warning, compares nothing and never makes the *)
(* exit code non-zero; when one exists, the file read is the first in the   *)
(* fixed order.                                                             *)
C6_MissingSummarySkips ==
  (PastGateWithTests /\ coverageConsumer # "none") =>
    /\ (coverageFiles \cap Range(CoverageCandidates) = {}) =>
         /\ GateSkipped
         /\ ~GateCompared
         /\ coverageTable = <<>>
         /\ ~Printed("COVERAGE OK") /\ ~Printed("COVERAGE FAIL")
         /\ (pc = "Exit" => exitCode = 0)
    /\ (coverageFiles \cap Range(CoverageCandidates) # {}) =>
         /\ GateCompared
         /\ summaryPath = firstCandidateOnDisk

\* a run with unit tests and no summary file ends with exit code 0
C6_Witness ==
  /\ pc = "Exit"
  /\ coverageConsumer # "none"
  /\ coverageFiles = {}
  /\ GateSkipped
  /\ SummaryPrinted
  /\ exitCode = 0

GateLine(e) ==
  \/ IsLine(e, "Coverage metrics (total):")
  \/ IsLine(e, "Coverage summary not found. Threshold check skip.")

IsPrefix(s, t) == Len(s) <= Len(t) /\ s = SubSeq(t, 1, Len(s))

IsStepEvent(i) == IsStep(events[i])
stepsBefore(i) == stepNames(SelectSeq(SubSeq(events, 1, i), IsStep))

(* C8 as stated: the gate is evaluated only after every enabled step has    *)
(* finished, and no step is started after the gate has been evaluated.      *)
C8_AsStated ==
  \A i \in 1..Len(events) :
    GateLine(events[i]) =>
      /\ stepsBefore(i) = EnabledSteps
      /\ \A j \in (i + 1)..Len(events) : ~IsStep(events[j])

(* C8 as amended: steps run in the fixed order Env info, NPM info, Format,  *)
(* Lint, TypeCheck, Unit Tests, Playwright projects, Complexity; the gate   *)
(* is evaluated after every enabled step but Complexity has finished; the   *)
(* only step started after the gate is Complexity, which runs whenever it   *)
(* has targets; the summary comes last, just before the exit.               *)
C8_GateBeforeComplexity ==
  /\ IsPrefix(stepNames(StepEvents), EnabledSteps)
  /\ \A i \in 1..Len(events) :
       GateLine(events[i]) =>
         /\ stepsBefore(i) = EnabledBeforePlaywright \o EnabledPlaywright
         /\ \A j \in (i + 1)..Len(events) :
              IsStep(events[j]) => events[j].name = StepName("Complexity")
  /\ SummaryPrinted =>
       /\ pc = "Exit"
       /\ LastLine("All steps OK") \/ LastLine("Build completed with issues")
       /\ Len(COMPLEXITY_TARGETS) > 0 => Ran("Complexity")

\* a finished run whose gate compared the percentages and whose Complexity step ran
C8_Witness ==
  /\ pc = "Exit"
  /\ GateCompared
  /\ Ran("Playwright")
  /\ Ran("Complexity")
  /\ SummaryPrinted

rowFor(metric) == CHOOSE row \in Range(coverageTable) : row.metric = metric

(* C4: once the gate has compared, its outcome follows from the summary's   *)
(* line percentage and the threshold alone: line pct >= threshold (equality *)
(* included) passes and the run can only end with exit code 0; line pct <   *)
(* threshold ends the run with exit code 1; the statement, branch and       *)
(* function percentages decide nothing but their rows' OK / WARN markers.   *)
C4_GateDependsOnLinesOnly ==
  GateCompared =>
    /\ AtLeast(summaryLinePct, COVERAGE_THRESHOLD) =>
         /\ Printed("COVERAGE OK")
         /\ ~Printed("COVERAGE FAIL")
         /\ pc = "Exit" => exitCode = 0
    /\ Less(summaryLinePct, COVERAGE_THRESHOLD) =>
         /\ LastLine("COVERAGE FAIL")
         /\ pc = "Exit"
         /\ exitCode = 1
    /\ \A m \in {"statements", "branches", "functions"} :
         summaryData.parsed =>
           (rowFor(m).status = "OK" <=> AtLeast(pctOf(summaryData[m]), COVERAGE_THRESHOLD))

\* lines exactly at the threshold pass although statements are at 0
C4_Witness ==
  /\ GateCompared
  /\ summaryData.parsed
  /\ summaryLinePct = COVERAGE_THRESHOLD
  /\ summaryData.statements = PctNumber(0)
  /\ rowFor("statements").status = "WARN"
  /\ pc = "Exit"
  /\ exitCode = 0

\* the text the claim selects: the variable if set, else the flag if given, else "70"
selectedThresholdText ==
  IF env.kind # "absent" THEN env
  ELSE IF argv.threshold.kind # "absent" THEN argv.threshold
  ELSE Str(<<"7", "0">>)

(* C7 as stated, for the texts that convert to a number: the gate's         *)
(* threshold is the value of COVERAGE_THRESHOLD when the variable is set,   *)
(* else the value of --threshold when given, else 70; so the gate fails     *)
(* exactly when the line percentage is below that value.                    *)
C7_AsStated ==
  (GateCompared /\ ~Number(selectedThresholdText).nan) =>
    /\ COVERAGE_THRESHOLD = Number(selectedThresholdText)
    /\ Printed("COVERAGE FAIL") <=> Less(summaryLinePct, Number(selectedThresholdText))

\* a key of the manifest counts as declared, and a script as existing, when
\* its value is a non-empty string
declared(x) == TruthyText(x)

claimedScript ==
  IF declared(pkg.testUnit) THEN "test:unit"
  ELSE IF declared(pkg.test) THEN "test" ELSE NoScript

claimedCommand ==
  IF claimedScript = "test:unit" THEN pkg.testUnit.text
  ELSE IF claimedScript = "test" THEN pkg.test.text ELSE <<>>

vitestReferenced ==
  wordIn("vitest", claimedCommand) \/ declared(pkg.devVitest) \/ declared(pkg.depVitest)
jestReferenced ==
  wordIn("jest", claimedCommand) \/ declared(pkg.devJest) \/ declared(pkg.depJest)

IsUnitStep(e) == IsStep(e) /\ e.name.step = "Unit Tests"
UnitStepNames == stepNames(SelectSeq(events, IsUnitStep))

ExistingDefault(d) == d \in rootDirs /\ d \notin ALWAYS_IGNORE_DIRS
UserExcluded(d) == d \in Range(parseListArg("excludeDirs"))
ExistingUnexcludedDefault(d) == ExistingDefault(d) /\ ~UserExcluded(d)

FormatTargets == (CHOOSE e \in Range(events) : IsStep(e) /\ e.name.step = "Format").targets

NamesDirectory(target, d) == target = d \/ Split(target, "/")[1] = d

TargetsOf(step) == (CHOOSE e \in Range(events) : IsStep(e) /\ e.name.step = step).targets

Streams == {"stdout", "stderr"}
CapturedLength(value) == value.lead + value.body + value.trail

LabelIndex(e, label) ==
  IF \E i \in 1..Len(e.sections) : e.sections[i] = LabelLine(label)
  THEN CHOOSE i \in 1..Len(e.sections) : e.sections[i] = LabelLine(label)
  ELSE 0

\* what a failed step's report shows under a label: the text line and, if
\* one follows it, the truncation notice
SectionShown(e, label) ==
  LET i == LabelIndex(e, label)
  IN  IF i = 0 THEN <<>>
      ELSE << e.sections[i + 1] >> \o
           (IF i + 2 <= Len(e.sections) /\ e.sections[i + 2].line = "truncated"
            THEN << e.sections[i + 2] >> ELSE <<>>)

(* C12 as stated: whenever a failed step's captured stdout or stderr is     *)
(* longer than 8000 characters, its section shows the first 8000 characters *)
(* of the captured output and a notice with the number of characters of the *)
(* captured output beyond 8000.                                             *)
C12_AsStated ==
  \A i \in 1..Len(events) : \A stream \in Streams :
    (Exited(events[i]) /\ CapturedLength(childOutput[stream]) > MAX_OUTPUT_CHARS) =>
      SectionShown(events[i], stream) =
        << TextLine(0, MAX_OUTPUT_CHARS),
           TruncatedLine(CapturedLength(childOutput[stream]) - MAX_OUTPUT_CHARS) >>

(* C12 as amended: the budget applies to the captured output with the       *)
(* whitespace at its ends removed.  A failed step's section shows the first *)
(* 8000 characters of the trimmed text and a notice with the exact number   *)
(* of its remaining characters when the trimmed text is longer than 8000    *)
(* (8001 characters: "1 more characters"); the whole trimmed text and no    *)
(* notice when it is not; and nothing, not even the label, when it is empty.*)
C12_TruncatesTrimmedOutput ==
  \A i \in 1..Len(events) : \A stream \in Streams :
    Exited(events[i]) =>
      LET value == childOutput[stream]
          shown == SectionShown(events[i], stream)
      IN  /\ value.body > MAX_OUTPUT_CHARS =>
               shown = << TextLine(value.lead, MAX_OUTPUT_CHARS),
                          TruncatedLine(value.body - MAX_OUTPUT_CHARS) >>
          /\ value.body = MAX_OUTPUT_CHARS + 1 => shown[2].more = 1
          /\ (value.body > 0 /\ value.body <= MAX_OUTPUT_CHARS) =>
               shown = << TextLine(value.lead, value.body) >>
          /\ value.body = 0 => LabelIndex(events[i], stream) = 0

\* Format failed having written 8001 characters between a leading and a
\* trailing newline: "1 more characters"
C12_Witness ==
  /\ childOutput.stdout = Output(1, MAX_OUTPUT_CHARS + 1, 1)
  /\ \E i \in 1..Len(events) :
       /\ Exited(events[i])
       /\ events[i].name = StepName("Format")
       /\ SectionShown(events[i], "stdout") =
            << TextLine(1, MAX_OUTPUT_CHARS), TruncatedLine(1) >>

LastSegment(path) == Split(path, "/")[Len(Split(path, "/"))]
ParentPath(path) ==
  LET segs == Split(path, "/") IN JoinSegments(SubSeq(segs, 1, Len(segs) - 1))

\* path lies strictly below one of the Complexity step's targets
BelowComplexityTarget(path) ==
  \E i \in 1..Len(COMPLEXITY_TARGETS) :
    LET base == Split(COMPLEXITY_TARGETS[i], "/")
        segs == Split(path, "/")
    IN  Len(segs) > Len(base) /\ SubSeq(segs, 1, Len(base)) = base

(* C13 as stated: the only thing the script itself writes under ROOT, in    *)
(* any run, is the copy of a Playwright report into the reports directory.  *)
C13_AsStated == \A w \in fsWrites : w.op = "copy"

(* C13 as amended: the script itself creates artifacts/ and                 *)
(* artifacts/test-results/ when it starts (unless they exist), copies a     *)
(* Playwright report into artifacts/test-results/ after that project's step *)
(* ran, and, before the Complexity step, removes the directories named      *)
(* dist, node_modules, artifacts, coverage or build that lie inside a       *)
(* complexity target; it creates, copies and removes nothing else.          *)
C13_OwnWrites ==
  /\ startupWrites \subseteq fsWrites
  /\ \A w \in fsWrites :
       \/ w.op = "mkdir" /\ w.path \in {ART_DIR, REPORT_DIR} /\ w.path \notin rootDirs
       \/ /\ w.op = "copy"
          /\ w.path = REPORT_DIR
          /\ shouldRunPlaywright
          /\ \E i \in 1..Len(events) :
               IsStep(events[i]) /\ events[i].name = PlaywrightName(w.project)
       \/ /\ w.op = "rm"
          /\ Ran("Complexity")
          /\ w.path \in rootDirs
          /\ LastSegment(w.path) \in COMPLEXITY_PRUNE_DIRS
          /\ BelowComplexityTarget(w.path)
  /\ Ran("Complexity") =>
       \A p \in rootDirs :
         (LastSegment(p) \in COMPLEXITY_PRUNE_DIRS /\ Contains(COMPLEXITY_TARGETS, ParentPath(p)))
           => FsWrite("rm", p, 0) \in fsWrites

\* a finished run that made the two directories, copied a report and removed
\* src/node_modules
C13_Witness ==
  /\ pc = "Exit"
  /\ exitCode = 0
  /\ fsWrites = { FsWrite("mkdir", ART_DIR, 0), FsWrite("mkdir", REPORT_DIR, 0),
                  FsWrite("copy", REPORT_DIR, 1),
                  FsWrite("rm", <<"src", "/", "node_modules">>, 0) }

DecidesAStep(probe) == probe.decides # ""

PlaywrightScanned ==
  \/ pc = "PlaywrightLoop"
  \/ Ran("Playwright")
  \/ Printed("Playwright SKIP: no Playwright projects detected")

(* C14 as stated: every look at the file system that decides whether a step *)
(* is enabled is made before the first step runs.                           *)
C14_AsStated == \A probe \in fsProbes : DecidesAStep(probe) => probe.after = 0

(* C14 as amended: the source directories, the manifest, tsconfig.json and  *)
(* the ESLint configuration are looked up before the first step runs; the   *)
(* only later look that decides whether a step is enabled is the scan for   *)
(* Playwright projects, made once, only with --run-playwright-tests, after  *)
(* every enabled step up to the unit tests has run.                         *)
C14_DetectionTiming ==
  /\ startupProbes \subseteq fsProbes
  /\ \A probe \in fsProbes :
       (DecidesAStep(probe) /\ probe.after > 0) =>
         /\ shouldRunPlaywright
         /\ probe = Probe("Playwright projects", "Playwright", Len(EnabledBeforePlaywright))
  /\ PlaywrightScanned =>
       Probe("Playwright projects", "Playwright", Len(EnabledBeforePlaywright)) \in fsProbes

\* a finished run whose Playwright project was found after five steps had run
C14_Witness ==
  /\ pc = "Exit"
  /\ exitCode = 0
  /\ Ran("Playwright")
  /\ Probe("Playwright projects", "Playwright", 5) \in fsProbes

(* C15 as stated: in a run started with --skip-tests no unit-test step and  *)
(* no Playwright step runs, whatever the manifest declares.                 *)
C15_AsStated == hasFlag("skipTests") => (~Ran("Unit Tests") /\ ~Ran("Playwright"))

(* C16 as stated: when no eligible source directory is resolved (the        *)
(* resolved list and the fallback list are both empty), the Format block    *)
(* prints "Format SKIP: no eligible source targets" and prettier is not run.*)
C16_AsStated ==
  (pc # "Format" /\ PRETTIER_TARGETS = <<>>) =>
    (Printed("Format SKIP: no eligible source targets") /\ ~Ran("Format"))

(* C17 as stated: the directory given with --src (src when the flag is not  *)
(* given) is the source directory the steps operate on: when it is on disk  *)
(* it is among the targets given to Format, Lint and Complexity, so that    *)
(* runs that differ only in --src are given different targets.              *)
C17_AsStated ==
  \A i \in 1..Len(events) :
    (/\ IsStep(events[i])
     /\ events[i].name.step \in {"Format", "Lint", "Complexity"}
     /\ SRC_DIR.kind = "string"
     /\ SRC_DIR.text \in rootDirs)
    => Contains(events[i].targets, SRC_DIR.text)

---------------------------------------------------------------------------
(* What a run of build-full.bat shows *)

BackendStages == <<"init", "format", "build", "tests", "coverage report", "coverage validation", "finalize">>

\* the flag that switches a backend stage on; init and finalize have none
\* but RUN_BACKEND
stageEnabled(e, stage) ==
  /\ e.RUN_BACKEND = 1
  /\ CASE stage = "format" -> e.RUN_FORMAT = 1
       [] stage = "build" -> e.RUN_BUILD = 1
       [] stage = "tests" -> e.RUN_TESTS = 1
       [] stage = "coverage report" -> e.RUN_COV_REPORT = 1
       [] stage = "coverage validation" -> e.RUN_COV_VALIDATE = 1
       [] OTHER -> TRUE

enabledBackendStages(e) == SelectSeq(BackendStages, LAMBDA stage : stageEnabled(e, stage))

stagesRunNames == [i \in 1..Len(stagesRun) |-> stagesRun[i].stage]

StageRan(stage) == \E i \in 1..Len(stagesRun) : stagesRun[i].stage = stage

IsPrefixOf(short, long) == Len(short) <= Len(long) /\ \A i \in 1..Len(short) : short[i] = long[i]

\* build-full.bat ended after deciding to run the backend, its scripts in place
BackendRunEnded ==
  /\ batPc = "exit"
  /\ cmdEnv.DISPLAY_HELP = 0
  /\ cmdEnv.RUN_BACKEND = 1
  /\ dotnetProject.scriptsDir

(* C18 as stated: in a run of build-full.bat that ended with the backend    *)
(* selected and the scripts directory in place, the stages that ran are the *)
(* enabled backend stages in the order init, format, build, tests, coverage *)
(* report, coverage validation, finalize, up to and including the first     *)
(* that returned a non-zero code; after such a stage nothing ran, the       *)
(* frontend build included, and the exit code is non-zero; and the coverage *)
(* stages ran only if the tests stage did.                                  *)
C18_AsStated ==
  BackendRunEnded =>
    LET enabled == enabledBackendStages(cmdEnv)
        failed == {i \in 1..Len(stagesRun) : stagesRun[i].code # 0}
    IN /\ IF failed = {}
          THEN stagesRunNames = enabled \/ stagesRunNames = enabled \o <<"frontend">>
          ELSE /\ IsPrefixOf(stagesRunNames, enabled)
               /\ failed = {Len(stagesRun)}
               /\ batExit # 0
       /\ (StageRan("coverage report") \/ StageRan("coverage validation")) => StageRan("tests")

\* build-full.bat ended after --frontend-only decided the run, with
\* FRONTEND_SCRIPT set in build.config.bat, that script on disk and the
\* scripts directory in place
FrontendOnlyRunEnded ==
  /\ batPc = "exit"
  /\ cmdEnv.DISPLAY_HELP = 0
  /\ cmdEnv.RUN_BACKEND = 0
  /\ cmdEnv.RUN_FRONTEND = 1
  /\ dotnetProject.config.exists
  /\ dotnetProject.config.FRONTEND_SCRIPT # ""
  /\ dotnetProject.frontendOnDisk
  /\ dotnetProject.scriptsDir

(* C19 as stated: a run of build-full.bat with --frontend-only, whose       *)
(* build.config.bat sets FRONTEND_SCRIPT to a script that exists, runs no   *)
(* backend stage, holds the configured FRONTEND_SCRIPT and runs it, and     *)
(* ends with a non-zero exit code when that script returned one.            *)
C19_AsStated ==
  FrontendOnlyRunEnded =>
    /\ \A i \in 1..Len(stagesRun) : stagesRun[i].stage = "frontend"
    /\ cmdEnv.FRONTEND_SCRIPT = dotnetProject.config.FRONTEND_SCRIPT
    /\ StageRan("frontend")
    /\ \A i \in 1..Len(stagesRun) : stagesRun[i].code # 0 => batExit # 0

\* the exit code of the coverage validation that ran
ValidationCode == stagesRun[CHOOSE i \in 1..Len(stagesRun) : stagesRun[i].stage = "coverage validation"].code

(* C20 as stated: with no build.config.bat, once coverage validation has    *)
(* run, a MIN_COVERAGE set in the environment beforehand is the minimum the *)
(* stages hold, so that validation returns 1 when the integer part of the   *)
(* line coverage in Summary.txt is below it (80 against 75%), and a         *)
(* SOLUTION set in the environment beforehand is the solution they hold.    *)
C20_AsStated ==
  (StageRan("coverage validation") /\ ~dotnetProject.config.exists) =>
    /\ dotnetProject.os.MIN_COVERAGE.defined =>
         /\ cmdEnv.MIN_COVERAGE = dotnetProject.os.MIN_COVERAGE
         /\ (dotnetProject.summary.kind = "parsed" /\ dotnetProject.summary.COVERAGE_INT < dotnetProject.os.MIN_COVERAGE.value) => ValidationCode = 1
    /\ dotnetProject.os.SOLUTION # "" => cmdEnv.SOLUTION = dotnetProject.os.SOLUTION

\* the integer part of a line-coverage text: the number its first run of
\* digits writes
RECURSIVE LeadingDigits(_)
LeadingDigits(text) == IF text = <<>> \/ Head(text) \notin Digits THEN <<>> ELSE <<Head(text)>> \o LeadingDigits(Tail(text))

IntegerPartOf(text) == DecimalValue(LeadingDigits(TrimLeft(text)))

\* Summary.txt is there and a percentage follows "Line coverage:"
PercentageGiven == dotnetProject.summary.kind = "file" /\ dotnetProject.summary.text # NoLine /\ LeadingDigits(TrimLeft(dotnetProject.summary.text)) # <<>>

(* C21: once validate-coverage.bat has run, its exit code is 1 exactly when *)
(* Summary.txt exists, a percentage follows "Line coverage:" in it and the  *)
(* integer part of that percentage is less than MIN_COVERAGE; it is 0 when  *)
(* the integer part is MIN_COVERAGE or more (100 against 70, 70.9 against   *)
(* 70), when the file is missing and when no percentage can be read.        *)
C21_ValidationExitCode ==
  StageRan("coverage validation") =>
    /\ ValidationCode \in {0, 1}
    /\ ValidationCode = 1 <=> (PercentageGiven /\ IntegerPartOf(dotnetProject.summary.text) < cmdEnv.MIN_COVERAGE.value)

C21_Witness ==
  /\ StageRan("coverage validation")
  /\ PercentageGiven
  /\ IntegerPartOf(dotnetProject.summary.text) = 100
  /\ cmdEnv.MIN_COVERAGE.value = 70
  /\ ValidationCode = 0

---------------------------------------------------------------------------
\* the gate looked for the summary files
GateLookedUp == \E p \in fsProbes : p.what = "coverage summary"

\* a unit-test step ran and exited with status 0, and this was before the
\* gate printed anything
UnitTestsPassedBeforeGate ==
  \E i \in 1..Len(events) :
    /\ IsStep(events[i])
    /\ events[i].name.step = "Unit Tests"
    /\ events[i].zero
    /\ \A j \in 1..i : ~IsLine(events[j], "Coverage metrics (total):") /\ ~IsLine(events[j], "Coverage summary not found. Threshold check skip.")

(* C22: whenever the gate has looked for a summary, printed its table or    *)
(* compared, a unit-test step ran earlier in the run and exited with status *)
(* 0; after a skipped or failed unit-test step the gate does none of these. *)
C22_GateNeedsPassedUnitTests ==
  (GateLookedUp \/ GateEvaluated \/ summaryPath # NoPath \/ coverageTable # <<>>) => UnitTestsPassedBeforeGate

\* the gate compared in a run where a soft step had failed
C22_Witness == GateCompared /\ SomeSoftFailure /\ UnitTestsPassedBeforeGate

---------------------------------------------------------------------------
\* the gate has acted and a summary file was at a candidate path
SummaryFileFound == pc # "CoverageGate" /\ summaryPath # NoPath

\* that file does not parse as JSON, or has no total.lines.pct
SummaryUnusable == ~summaryData.parsed \/ summaryData.lines = NoPct

LinesRow == coverageTable[CHOOSE i \in 1..Len(coverageTable) : coverageTable[i].metric = "lines"]

(* C23: when the gate found a summary file that does not parse as JSON or   *)
(* that has no total.lines.pct, it did not take the file for missing: it    *)
(* printed its table with a line percentage of 0, printed COVERAGE FAIL and *)
(* ended the run with exit code 1, the threshold being positive.            *)
C23_UnusableSummaryFails ==
  (SummaryFileFound /\ SummaryUnusable /\ Less(Num(0), COVERAGE_THRESHOLD)) =>
    /\ ~GateSkipped
    /\ GateCompared
    /\ LinesRow.pct = Num(0)
    /\ Printed("COVERAGE FAIL")
    /\ pc = "Exit"
    /\ exitCode = 1

C23_Witness == SummaryFileFound /\ summaryData.parsed /\ summaryData.lines = NoPct /\ summaryData.statements = PctNumber(100) /\ exitCode = 1

---------------------------------------------------------------------------
(* C24 as stated: whenever the gate has printed its table, the marker of    *)
(* the lines row is OK exactly when the gate printed COVERAGE OK and let    *)
(* the run go on, and WARN exactly when it printed COVERAGE FAIL and ended  *)
(* the run with exit code 1, whatever total.lines.pct is, a text such as    *)
(* "Unknown" included.                                                      *)
C24_AsStated ==
  (pc # "CoverageGate" /\ coverageTable # <<>>) =>
    /\ LinesRow.status = "OK" <=> Printed("COVERAGE OK")
    /\ LinesRow.status = "WARN" <=> (Printed("COVERAGE FAIL") /\ exitCode = 1)

---------------------------------------------------------------------------
(* C25 as stated: every directory that pruneComplexitySources removed is a  *)
(* directory of the tree named dist, node_modules, artifacts, coverage or   *)
(* build, lies strictly inside a complexity target, and is not itself one   *)
(* of the resolved targets.                                                 *)
C25_AsStated ==
  \A w \in fsWrites :
    w.op = "rm" =>
      /\ w.path \in rootDirs
      /\ LastSegment(w.path) \in COMPLEXITY_PRUNE_DIRS
      /\ BelowComplexityTarget(w.path)
      /\ ~Contains(COMPLEXITY_TARGETS, w.path)

---------------------------------------------------------------------------
\* the directory under ROOT that a name stands for
DirectoryOf(name) == JoinSegments(Resolve(Split(name, "/"), <<>>))

\* a name given in --include-dirs that names a directory on disk whose top
\* segment is neither denylisted nor excluded by the user
IncludedAndEligible(name) ==
  LET dir == DirectoryOf(name)
      top == Split(dir, "/")[1]
  IN /\ dir # <<>>
     /\ dir \in rootDirs
     /\ top \notin ALWAYS_IGNORE_DIRS
     /\ top \notin extraExcludeDirs
     /\ dir \notin extraExcludeDirs

(* C26 as stated: once Format has run, every name given in --include-dirs   *)
(* that names an existing directory under the root, with a top segment that *)
(* is neither in the denylist nor in --exclude-dirs, is among the targets   *)
(* Format was given, as that same directory, names that begin with "." or   *)
(* "./" included (.storybook).                                              *)
C26_AsStated ==
  Ran("Format") =>
    \A name \in Range(extraIncludeDirs) :
      IncludedAndEligible(name) => \E t \in Range(TargetsOf("Format")) : DirectoryOf(t) = DirectoryOf(name)

\* finalize.bat prints the BUILD SUCCEEDED banner whenever it is called
BannerPrinted == StageRan("finalize")

\* build-full.bat ended after --frontend with the backend selected, the
\* scripts, the solution, dotnet and the configured frontend script in place
FrontendAfterBackendRunEnded ==
  /\ BackendRunEnded
  /\ cmdEnv.RUN_FRONTEND = 1
  /\ dotnetProject.config.exists
  /\ dotnetProject.config.loads
  /\ dotnetProject.config.FRONTEND_SCRIPT # ""
  /\ dotnetProject.frontendOnDisk
  /\ dotnetProject.slnOnDisk
  /\ dotnetProject.dotnetOnPath

CommandCode(command) == stagesRun[CHOOSE i \in 1..Len(stagesRun) : stagesRun[i].stage = command /\ \A j \in 1..(i - 1) : stagesRun[j].stage # command].code

\* build-sln.bat ended, called without --verbose
QuietBuildEnded ==
  /\ batPc = "exit"
  /\ StageRan("build")
  /\ cmdEnv.VERBOSE_MODE = 0

(* C28 as stated: in quiet mode build-sln.bat exits 1 exactly when dotnet    *)
(* build exited non-zero, whatever findstr and del returned after it.        *)
C28_AsStated ==
  QuietBuildEnded =>
    /\ batExit = CommandCode("build")
    /\ batExit \in {0, 1}
    /\ batExit = 1 <=> CommandCode("dotnet build") # 0

\* run-tests.bat ended
TestsEnded ==
  /\ batPc = "exit"
  /\ StageRan("tests")

TestsPassed == CommandCode("dotnet test") = 0

CoverageFound == StageRan("dir coverage.cobertura.xml") /\ CommandCode("dir coverage.cobertura.xml") = 0

\* the results directory was removed after dotnet test had run
RawRemovedAfterTests == \E i \in 1..Len(stagesRun) : stagesRun[i].stage = "rd raw" /\ \E j \in 1..(i - 1) : stagesRun[j].stage = "dotnet test"

---------------------------------------------------------------------------
\* every directory a recursive scan read lies at most 4 levels below the
\* directory the scan started at
ScansStayShallow == \A read \in scanned : Len(read.dir) - Len(read.start) <= 4 /\ SubSeq(read.dir, 1, Len(read.start)) = read.start

\* the diagnostic re-invocation, one per step event at most, ran for failed
\* steps only
DiagnosticOnlyAfterFailure == \A i \in 1..Len(events) : (events[i].kind = "step" /\ events[i].diag) => ~events[i].zero

====
